---- MODULE Spec2Model ----
(***************************************************************************)
(* Bronze layer of kkuvam/crop-ai: the agmarknet row parser                *)
(* (pipeline/parse_broze_agmarknet.py) with its SCD2 versioning, the file  *)
(* ingestors (pipeline/ingest_bronze_*.py), and the weather and eNAM row   *)
(* parsers.                                                                *)
(*                                                                         *)
(* Spec        the row parser: bronze files are appended between runs, a   *)
(*             run walks them in created_at order, one record per step.    *)
(* SpecChain   one natural key observed in successive bronze files.        *)
(* SpecCrash   parse runs that are interrupted and run again.              *)
(* SpecNorm    one market spelled in several ways.                         *)
(* SpecPayload one bronze file with any payload text and data_format.      *)
(* SpecWorkers concurrent executions of the versioning step.               *)
(* SpecIngest  a file ingestor scanning its data directory.                *)
(* SpecIngestFaults  the same with a store whose SELECT may raise.         *)
(* SpecChecksum      file_checksum byte by byte.                           *)
(* SpecNumeric parse_numeric on one value.                                 *)
(* SpecHash    the record_hash of one record and the versioning decision.  *)
(* SpecQuality check_data_quality on one record (agmarknet and eNAM).      *)
(* SpecMeteo   the weather row parser (pipeline/parse_bronze_meteo.py).    *)
(* SpecEnam    the eNAM row parser (pipeline/parse_bronze_enam.py).        *)
(* SpecLookup  the row parser when the lookup of existing rows may fail.   *)
(* SpecSkew    the row parser with a wall clock that may step backwards.   *)
(* SpecTroubled  an ingestor over files that are gone, unreadable, too     *)
(*             large or not UTF-8, followed by the parser's fetch.         *)
(* SpecWalk    os.walk over a directory tree in any scandir order.         *)
(* SpecYearMonth  extract_year_month_from_path on short paths.             *)
(***************************************************************************)
EXTENDS Integers, Sequences, FiniteSets, TLC

VARIABLES
    files,      \* agmarknet_bronze_files, in created_at order
    rows,       \* agmarknet_bronze_rows: a set of row records
    pc,         \* where the parser's main is: "idle", "file", "records"
    run,        \* number of parse runs started
    queue,      \* the file list fetched by the current (or last) run
    prevQueue,  \* the file list the run before it fetched
    fidx,       \* index in queue of the file being processed
    ridx,       \* index of the next record of that file
    now,        \* the clock: datetime.now() read at the start of each file
    cur,        \* rows_inserted / rows_skipped / rows_updated of the file
    manifest,   \* the run manifest
    ingestor,   \* which ingest script runs: "agmarket", "meteo" or "enam"
    dir,        \* the data directory: its .json/.jsonl entries in walk order
    store,      \* <source>_bronze_files as the ingestor sees it
    ipc,        \* where the ingestor's main is: "idle", "scan"
    irun,       \* number of ingestion runs started
    scanDir,    \* the directory as the current (or last) run found it
    prevScan,   \* the directory as the run before it found it
    pos,        \* index in scanDir of the next file to scan
    existing_checksums, \* the in-memory set loaded at the start of the run
    imanifest,  \* the ingestion run's manifest
    prevStats,  \* the stats of the scanning run before the current one
    prevStore,  \* the store as the current (or last) scanning run found it
    scans,      \* number of ingestion runs that reached the scan
    written,    \* number of manifest documents the ingestion runs wrote
    crashed,    \* the parse runs (their numbers) that were interrupted
    workers,    \* concurrent executions of the versioning step
    hasher,     \* file_checksum under way: the hash object and the file read
    calc,       \* a helper function under way: its argument and its result
    meteo,      \* parse_bronze_meteo.py: its two tables and where its main is
    enam        \* parse_bronze_enam.py: its two tables and where its main is

pvars == <<files, rows, pc, run, queue, prevQueue, fidx, ridx, now, cur, manifest>>
ivars == <<ingestor, dir, store, ipc, irun, scanDir, prevScan, pos,
           existing_checksums, imanifest, prevStats, prevStore, scans>>
xvars == <<written, crashed, workers, hasher, calc, meteo, enam>>
vars == <<pvars, ivars, xvars>>

----------------------------------------------------------------------------
(* Bounds of the model *)

MaxRecords == 3     \* records in all bronze files together
MaxFiles == 3       \* bronze files
MaxRuns == 2        \* parse runs
MaxChain == 4       \* single-record bronze files of SpecChain
MaxDirFiles == 2    \* entries of the data directory
MaxIngestRuns == 2  \* ingestion runs
MaxCrashes == 1     \* interrupted parse runs
MaxWorkers == 2     \* concurrent executions of the versioning step
MaxLines == 3       \* lines of a payload text
MaxBytes == 2       \* bytes of a path, and of a file's content

(* SQL NULL / Python None, for row ids (tuples) and for timestamps *)
NoRow == <<>>
NoTime == 0

----------------------------------------------------------------------------
(* The records a bronze file's payload can hold *)

Markets == {"Alpha", "Beta"}
Prices == {2000, 2100}

GoodRecords ==
    [market_name : Markets, commodity_name : {"Wheat"}, variety : {""},
     grade : {""}, reported_date : {"01 Jan 2024"}, modal_price : Prices]

BadRecords ==
    { [market_name |-> "Alpha", commodity_name |-> "Wheat", variety |-> "",
       grade |-> "", reported_date |-> "", modal_price |-> 2000],
      [market_name |-> "", commodity_name |-> "Wheat", variety |-> "",
       grade |-> "", reported_date |-> "01 Jan 2024", modal_price |-> 2000] }

Records == GoodRecords \cup BadRecords

Payloads == UNION { [1..n -> Records] : n \in 1..2 }

----------------------------------------------------------------------------
(* Helper functions of parse_broze_agmarknet.py *)

\* parse_date: the accepted formats give the ISO date, anything else raises
\* ValueError ("ERR").
parse_date(s) ==
    CASE s = "01 Jan 2024" -> "2024-01-01"
      [] s = "01-Jan-2024" -> "2024-01-01"
      [] s = "2024-01-01"  -> "2024-01-01"
      [] s = "01/01/2024"  -> "2024-01-01"
      [] OTHER -> "ERR"

\* record.get(f, '').strip() or None, with "" standing for None
strip(s) ==
    CASE s = " Alpha " -> "Alpha"
      [] s = " "       -> ""
      [] OTHER -> s

\* normalize_place_name (ingest_bronze_common.py): lower case, runs of
\* non-word characters to "_", no leading or trailing "_"; None ("") for an
\* empty name
normalize_place_name(name) ==
    CASE name = "Alpha"   -> "alpha"
      [] name = "ALPHA"   -> "alpha"
      [] name = " Alpha " -> "alpha"
      [] name = "Beta"    -> "beta"
      [] name = "Wheat"   -> "wheat"
      [] OTHER -> name

\* Python values as json.loads gives them: type names the Python type, n is
\* the number of an int or a bool (for a float its integer part), s is the
\* characters of a str (for a float the digits of its fractional part, none
\* of them a trailing zero).
None == [type |-> "NoneType", n |-> 0, s |-> <<>>]
py_int(n) == [type |-> "int", n |-> n, s |-> <<>>]
py_bool(n) == [type |-> "bool", n |-> n, s |-> <<>>]
py_float(n, frac) == [type |-> "float", n |-> n, s |-> frac]
py_str(s) == [type |-> "str", n |-> 0, s |-> s]
py_list == [type |-> "list", n |-> 0, s |-> <<>>]

\* the floats that are no number: float('nan') and float('inf')
NaN == py_float(0, <<"n", "a", "n">>)
Inf == py_float(0, <<"i", "n", "f">>)

\* the exceptions float() raises
ValueError == [type |-> "ValueError", n |-> 0, s |-> <<>>]
OverflowError == [type |-> "OverflowError", n |-> 0, s |-> <<>>]

\* the largest finite float (sys.float_info.max, about 1.8e308), scaled down:
\* an int is unbounded, a float is not
FloatMax == 3000

Digits == {"1", "2", "3", "4", "5"}

DigitValue(c) ==
    CASE c = "1" -> 1 [] c = "2" -> 2 [] c = "3" -> 3 [] c = "4" -> 4
      [] c = "5" -> 5

RECURSIVE digits_value(_)
digits_value(ds) ==
    IF ds = <<>> THEN 0
    ELSE digits_value(SubSeq(ds, 1, Len(ds) - 1)) * 10 + DigitValue(ds[Len(ds)])

AllDigits(ds) == \A i \in DOMAIN ds : ds[i] \in Digits

\* str.lower()
lower_char(c) ==
    CASE c = "N" -> "n" [] c = "A" -> "a" [] c = "U" -> "u" [] c = "L" -> "l"
      [] c = "O" -> "o" [] c = "E" -> "e" [] OTHER -> c

lower(s) == [i \in DOMAIN s |-> lower_char(s[i])]

\* str.replace(old, '')
replace(s, old) == SelectSeq(s, LAMBDA c : c # old)

\* str.strip() of a sequence of characters
RECURSIVE lstrip(_)
lstrip(s) == IF s # <<>> /\ Head(s) = " " THEN lstrip(Tail(s)) ELSE s

RECURSIVE rstrip(_)
rstrip(s) ==
    IF s # <<>> /\ s[Len(s)] = " " THEN rstrip(SubSeq(s, 1, Len(s) - 1)) ELSE s

str_strip(s) == rstrip(lstrip(s))

\* float(value) of an int, a bool or a float: an int beyond the largest
\* float raises OverflowError
float_of_number(value) ==
    IF value.type = "float" THEN value
    ELSE IF value.n > FloatMax THEN OverflowError
    ELSE py_float(value.n, <<>>)

\* float(value) of a str: digits with at most one point and a digit on one
\* side of it at least, or nan in any letter case; a number beyond the
\* largest float is inf; anything else raises ValueError
float_of_str(s) ==
    LET points == { i \in DOMAIN s : s[i] = "." } IN
    IF lower(s) = <<"n", "a", "n">> THEN NaN
    ELSE IF s # <<>> /\ AllDigits(s)
    THEN IF digits_value(s) > FloatMax THEN Inf ELSE py_float(digits_value(s), <<>>)
    ELSE IF Cardinality(points) = 1
    THEN LET p == CHOOSE i \in points : TRUE
             whole == SubSeq(s, 1, p - 1)
             frac == SubSeq(s, p + 1, Len(s))
         IN  IF AllDigits(whole) /\ AllDigits(frac) /\ Len(s) > 1
             THEN IF digits_value(whole) > FloatMax THEN Inf
                  ELSE py_float(digits_value(whole), frac)
             ELSE ValueError
    ELSE ValueError

\* the spellings of a missing value, compared after lower()
MissingWords ==
    { <<"n", "a">>, <<"n", "/", "a">>, <<"n", "u", "l", "l">>,
      <<"n", "o", "n", "e">> }

\* parse_numeric: None for None, '' and the spellings of a missing value,
\* float(value) for a number and for a str that float() reads, None for
\* anything else
parse_numeric(value) ==
    IF value.type = "NoneType" \/ value = py_str(<<>>) THEN None
    ELSE IF value.type \in {"int", "bool", "float"} THEN float_of_number(value)
    ELSE IF value.type = "str"
    THEN LET v == str_strip(replace(value.s, ",")) IN
         IF v = <<>> \/ lower(v) \in MissingWords THEN None
         ELSE IF float_of_str(v) = ValueError THEN None ELSE float_of_str(v)
    ELSE None

\* the string hashed by compute_row_id (sha256 taken as injective)
compute_row_id(file_id, market_name, commodity_name, variety, grade, reported_date) ==
    <<file_id, market_name, commodity_name, variety, grade, reported_date>>

compute_record_hash_no_modal(arrivals, min_price, max_price, modal_price) ==
    <<arrivals, max_price, min_price>>

\* compute_record_hash: the price fields in sorted key order; the fields a
\* record does not carry are None (0)
compute_record_hash(arrivals, min_price, max_price, modal_price) ==
    <<arrivals, max_price, min_price, modal_price>>

----------------------------------------------------------------------------
(* Payload texts.  A raw_payload is a sequence of lines; a line is one of  *)
(*   "objA", "objB"  a JSON object (a market record) on one line           *)
(*   "arr"           the JSON array of the two objects on one line         *)
(*   "[", "]"        the brackets of an array written over several lines   *)
(*   "bad"           text that is not JSON                                 *)
(*   ""              a blank line                                          *)

Lines == {"objA", "objB", "arr", "[", "]", "bad", ""}

PayloadTexts == UNION { [1..n -> Lines] : n \in 0..MaxLines }

DataFormats == {"json", "jsonl"}

RecA ==
    [market_name |-> "Alpha", commodity_name |-> "Wheat", variety |-> "",
     grade |-> "", reported_date |-> "01 Jan 2024", modal_price |-> 2000]

RecB ==
    [market_name |-> "Beta", commodity_name |-> "Wheat", variety |-> "",
     grade |-> "", reported_date |-> "01 Jan 2024", modal_price |-> 2000]

\* a parsed value that is a list where process_file_records expects a dict:
\* 'reported_date' not in record holds of it
NotAnObject ==
    [market_name |-> "", commodity_name |-> "", variety |-> "",
     grade |-> "", reported_date |-> "", modal_price |-> 0]

JSONDecodeError == [ok |-> FALSE, is_list |-> FALSE, items |-> <<>>]

\* json.loads of one line
json_loads_line(line) ==
    CASE line = "objA" -> [ok |-> TRUE, is_list |-> FALSE, items |-> <<RecA>>]
      [] line = "objB" -> [ok |-> TRUE, is_list |-> FALSE, items |-> <<RecB>>]
      [] line = "arr"  -> [ok |-> TRUE, is_list |-> TRUE, items |-> <<RecA, RecB>>]
      [] OTHER -> JSONDecodeError

\* a parsed value as an element of the list of records
AsRecord(v) == IF v.is_list THEN NotAnObject ELSE v.items[1]

NonBlank(text) == SelectSeq(text, LAMBDA line : line # "")

\* json.loads of a text given by its non-blank lines: one value, or an array
\* whose brackets stand on lines of their own around no or one value
RECURSIVE json_loads_lines(_)
json_loads_lines(nb) ==
    IF Len(nb) = 1 THEN json_loads_line(nb[1])
    ELSE IF Len(nb) >= 2 /\ nb[1] = "[" /\ nb[Len(nb)] = "]"
    THEN LET inner == SubSeq(nb, 2, Len(nb) - 1) IN
         IF inner = <<>>
         THEN [ok |-> TRUE, is_list |-> TRUE, items |-> <<>>]
         ELSE LET v == json_loads_lines(inner) IN
              IF v.ok
              THEN [ok |-> TRUE, is_list |-> TRUE, items |-> <<AsRecord(v)>>]
              ELSE JSONDecodeError
    ELSE JSONDecodeError

\* json.loads of a whole text
json_loads(text) == json_loads_lines(NonBlank(text))

\* the 'jsonl' branch of parse_json_payload: every non-blank line that
\* parses is appended, a line that does not is logged and left out
RECURSIVE parse_jsonl(_)
parse_jsonl(text) ==
    IF text = <<>> THEN <<>>
    ELSE LET v == json_loads_line(Head(text)) IN
         IF Head(text) # "" /\ v.ok
         THEN <<AsRecord(v)>> \o parse_jsonl(Tail(text))
         ELSE parse_jsonl(Tail(text))

\* parse_payload_text (parse_bronze_meteo.py): the whole text is tried
\* first, the lines after
parse_payload_text(payload_text) ==
    LET parsed == json_loads(payload_text) IN
    IF parsed.ok THEN parsed.items ELSE parse_jsonl(payload_text)

\* parse_json_payload: the branch is chosen by data_format
parse_json_payload(payload, data_format) ==
    IF data_format = "jsonl"
    THEN parse_jsonl(payload)
    ELSE LET data == json_loads(payload) IN
         IF data.ok THEN data.items ELSE <<>>

----------------------------------------------------------------------------
\* the natural key the lookup and the unique index use
NaturalKey(r) ==
    <<r.market_name, r.commodity_name, r.variety, r.grade, r.reported_date>>

\* get_existing_row_versions: the rows of the key; existing[0] is the one
\* first under ORDER BY version DESC
get_existing_row_versions_none(market_name, commodity_name, variety, grade, reported_date) ==
    {}

get_existing_row_versions(market_name, commodity_name, variety, grade, reported_date) ==
    { r \in rows : NaturalKey(r) =
        <<market_name, commodity_name, variety, grade, reported_date>> }

\* existing[0] if the query were ordered by created_at DESC
LatestCreated(existing) ==
    CHOOSE r \in existing : \A o \in existing : o.created_at <= r.created_at

\* existing[0] if the query were ordered by version ASC
Oldest(existing) ==
    CHOOSE r \in existing : \A o \in existing : r.version <= o.version

\* existing[0]: the row of the maximum version
Latest(existing) ==
    CHOOSE r \in existing : \A o \in existing : o.version <= r.version

----------------------------------------------------------------------------
(* The row parser: main and process_file_records *)

NewManifest ==
    [processed_files |-> <<>>, skipped_files |-> <<>>, errors |-> <<>>,
     stats |-> [files_processed |-> 0, files_skipped |-> 0,
                total_rows_inserted |-> 0, total_rows_skipped |-> 0,
                total_rows_updated |-> 0, total_errors |-> 0]]

NoCounts == [rows_inserted |-> 0, rows_skipped |-> 0, rows_updated |-> 0]

RECURSIVE TotalRecords(_)
TotalRecords(fs) ==
    IF fs = <<>> THEN 0 ELSE Len(Head(fs).records) + TotalRecords(Tail(fs))

RowIds == { r.row_id : r \in rows }

update_superseded_keeps_latest(r, new_row_id, ts) ==
    [r EXCEPT !.superseded_by = new_row_id, !.superseded_at = ts,
              !.updated_at = ts]

\* the row the supersede UPDATE leaves behind
update_superseded(r, new_row_id, ts) ==
    [r EXCEPT !.is_latest = FALSE, !.superseded_by = new_row_id,
              !.superseded_at = ts, !.updated_at = ts]

next_version_skips(latest) == latest.version + 2

\* version of the row inserted after `latest`
next_version(latest) == latest.version + 1

\* the row of the INSERT statement
new_row(row_id, file_id, market_name, commodity_name, variety, grade, date_iso, modal_price, record_hash, version, run_id, ts, source_row_number) ==
    [row_id |-> row_id, file_id |-> file_id, market_name |-> market_name,
     commodity_name |-> commodity_name, variety |-> variety, grade |-> grade,
     reported_date |-> date_iso, modal_price |-> modal_price,
     record_hash |-> record_hash, is_latest |-> TRUE, version |-> version,
     superseded_by |-> NoRow, superseded_at |-> NoTime,
     ingest_job_id |-> run_id, ingest_ts |-> ts,
     source_row_number |-> source_row_number,
     created_at |-> ts, updated_at |-> ts]

\* the INSERT raises on the primary key (row_id) and on the unique index
\* idx_rows_unique_market_commodity_date_version; an index entry with a NULL
\* column (variety or grade stored as None) equals no other entry
insert_raises(table, row) ==
    \/ \E r \in table : r.row_id = row.row_id
    \/ /\ row.variety # "" /\ row.grade # ""
       /\ \E r \in table : NaturalKey(r) = NaturalKey(row) /\ r.version = row.version

\* an ingestor appended one more bronze file (the parser's input grows only
\* between runs: main fetches the file list once, at its start)
AddBronzeFile(payload, sentinel) ==
    /\ pc = "idle"
    /\ files' = Append(files, [file_id |-> Len(files) + 1,
                               payload_error |-> sentinel,
                               records |-> payload])
    /\ UNCHANGED <<rows, pc, run, queue, prevQueue, fidx, ridx, now, cur, manifest>>
    /\ UNCHANGED <<ivars, xvars>>

\* an ingestor appended a bronze file with the text `payload`; records is
\* what process_file_records (line 400) parses from raw_payload
AddPayloadFile(payload, data_format) ==
    /\ pc = "idle"
    /\ files' = Append(files, [file_id |-> Len(files) + 1,
                               payload_error |-> FALSE,
                               raw_payload |-> payload,
                               data_format |-> data_format,
                               records |-> parse_json_payload(payload, data_format)])
    /\ UNCHANGED <<rows, pc, run, queue, prevQueue, fidx, ridx, now, cur, manifest>>
    /\ UNCHANGED <<ivars, xvars>>

\* main, up to the fetch of the files to parse
StartRun ==
    /\ pc = "idle"
    /\ files # <<>>
    /\ run' = run + 1
    /\ prevQueue' = queue
    /\ queue' = files
    /\ fidx' = 1
    /\ ridx' = 0
    /\ pc' = "file"
    /\ manifest' = NewManifest
    /\ cur' = NoCounts
    /\ UNCHANGED <<files, rows, now>>
    /\ UNCHANGED <<ivars, xvars>>

\* process_file_records up to its loop: a sentinel payload or an empty
\* payload lists the file as skipped and returns 0 (main counts it processed).
\* ts: what datetime.now() returns at line 446.
BeginFileAt(ts) ==
    /\ pc = "file"
    /\ fidx <= Len(queue)
    /\ LET f == queue[fidx] IN
       IF f.payload_error \/ f.records = <<>>
       THEN /\ manifest' =
                 [manifest EXCEPT
                    !.skipped_files = Append(@,
                        [file_id |-> f.file_id,
                         reason |-> IF f.payload_error THEN "payload_error"
                                    ELSE "no_records"]),
                    !.stats.files_processed = @ + 1]
            /\ fidx' = fidx + 1
            /\ UNCHANGED <<pc, ridx, now, cur>>
       ELSE /\ pc' = "records"
            /\ ridx' = 1
            /\ now' = ts
            /\ cur' = NoCounts
            /\ UNCHANGED <<manifest, fidx>>
    /\ UNCHANGED <<files, rows, run, queue, prevQueue>>
    /\ UNCHANGED <<ivars, xvars>>

\* process_file_records up to its loop, under a clock that advances
BeginFile == BeginFileAt(now + 1)

\* what one iteration of the loop of process_file_records computes for
\* `record` before it touches the store
Fields(file_id, record) ==
    LET date_iso == parse_date(record.reported_date)
        market_name == strip(record.market_name)
        commodity_name == strip(record.commodity_name)
        variety == strip(record.variety)
        grade == strip(record.grade)
        modal_price == parse_numeric(py_int(record.modal_price)).n
    IN  [date_iso |-> date_iso, market_name |-> market_name,
         commodity_name |-> commodity_name, variety |-> variety,
         grade |-> grade, modal_price |-> modal_price,
         row_id |-> compute_row_id(file_id, market_name, commodity_name,
                                   variety, grade, date_iso),
         record_hash |-> compute_record_hash(0, 0, 0, modal_price),
         existing |-> get_existing_row_versions(market_name, commodity_name,
                                                variety, grade, date_iso)]

\* the record is dropped: no reported_date, an unparseable one, or no
\* market_name / commodity_name
Dropped(record) ==
    \/ record.reported_date = ""
    \/ parse_date(record.reported_date) = "ERR"
    \/ strip(record.market_name) = ""
    \/ strip(record.commodity_name) = ""

\* the data of the record is that of the latest stored version
Unchanged(existing, record_hash) ==
    existing # {} /\ Latest(existing).record_hash = record_hash

\* one iteration of the loop of process_file_records.  lookup_ok: the query
\* of get_existing_row_versions did not raise; when it raises the function
\* logs a warning and returns [] (lines 369-371).
ProcessRecordLookup(lookup_ok) ==
    /\ pc = "records"
    /\ ridx <= Len(queue[fidx].records)
    /\ LET file_id == queue[fidx].file_id
           record == queue[fidx].records[ridx]
           f == Fields(file_id, record)
           existing == IF lookup_ok THEN f.existing ELSE {}
           latest == Latest(existing)
           version == IF existing = {} THEN 1 ELSE next_version(latest)
           updated == IF existing = {} THEN rows
                      ELSE (rows \ {latest}) \cup
                           {update_superseded(latest, f.row_id, now)}
           row == new_row(f.row_id, file_id, f.market_name, f.commodity_name,
                          f.variety, f.grade, f.date_iso, f.modal_price,
                          f.record_hash, version, run, now, ridx)
       IN
       /\ ridx' = ridx + 1
       /\ IF Dropped(record)
          THEN UNCHANGED <<rows, cur, manifest>>
          ELSE IF Unchanged(existing, f.record_hash)
          THEN /\ cur' = [cur EXCEPT !.rows_skipped = @ + 1]
               /\ UNCHANGED <<rows, manifest>>
          ELSE IF insert_raises(updated, row)
          THEN /\ rows' = updated
               /\ cur' = IF existing = {} THEN cur
                         ELSE [cur EXCEPT !.rows_updated = @ + 1]
               /\ manifest' =
                    [manifest EXCEPT !.errors = Append(@,
                        [file_id |-> file_id, record_index |-> ridx - 1,
                         error_type |-> "ConstraintException"])]
          ELSE /\ rows' = updated \cup {row}
               /\ cur' = [cur EXCEPT
                            !.rows_inserted = @ + 1,
                            !.rows_updated = IF existing = {} THEN @ ELSE @ + 1]
               /\ UNCHANGED manifest
    /\ UNCHANGED <<files, pc, run, queue, prevQueue, fidx, now>>
    /\ UNCHANGED <<ivars, xvars>>

\* one iteration of the loop of process_file_records on a store that answers
ProcessRecord == ProcessRecordLookup(TRUE)

\* the end of process_file_records and main's bookkeeping for the file
EndFile ==
    /\ pc = "records"
    /\ ridx > Len(queue[fidx].records)
    /\ manifest' =
         [manifest EXCEPT
            !.processed_files = Append(@,
                [file_id |-> queue[fidx].file_id,
                 rows_inserted |-> cur.rows_inserted,
                 rows_skipped |-> cur.rows_skipped,
                 rows_updated |-> cur.rows_updated]),
            !.stats.total_rows_inserted = @ + cur.rows_inserted,
            !.stats.files_processed = @ + 1]
    /\ fidx' = fidx + 1
    /\ pc' = "file"
    /\ UNCHANGED <<files, rows, run, queue, prevQueue, ridx, now, cur>>
    /\ UNCHANGED <<ivars, xvars>>

\* main after the last file: the manifest is finalized and written
FinishRun ==
    /\ pc = "file"
    /\ fidx > Len(queue)
    /\ manifest' = [manifest EXCEPT !.stats.total_errors = Len(manifest.errors)]
    /\ pc' = "idle"
    /\ UNCHANGED <<files, rows, run, queue, prevQueue, fidx, ridx, now, cur>>
    /\ UNCHANGED <<ivars, xvars>>

\* the parser process dies between two iterations of a loop: nothing more
\* is written, not even the manifest
Crash ==
    /\ pc \in {"file", "records"}
    /\ pc' = "idle"
    /\ crashed' = crashed \cup {run}
    /\ UNCHANGED <<files, rows, run, queue, prevQueue, fidx, ridx, now, cur, manifest>>
    /\ UNCHANGED <<ivars, written, workers, hasher, calc, meteo, enam>>

\* the parser process dies inside an iteration, after the supersede UPDATE
\* (line 523, autocommitted) and before the INSERT (line 532)
CrashInRecord ==
    /\ pc = "records"
    /\ ridx <= Len(queue[fidx].records)
    /\ LET record == queue[fidx].records[ridx]
           f == Fields(queue[fidx].file_id, record)
       IN
       /\ ~Dropped(record)
       /\ f.existing # {}
       /\ ~Unchanged(f.existing, f.record_hash)
       /\ rows' = (rows \ {Latest(f.existing)}) \cup
                    {update_superseded(Latest(f.existing), f.row_id, now)}
    /\ pc' = "idle"
    /\ crashed' = crashed \cup {run}
    /\ UNCHANGED <<files, run, queue, prevQueue, fidx, ridx, now, cur, manifest>>
    /\ UNCHANGED <<ivars, written, workers, hasher, calc, meteo, enam>>

\* The versioning step of process_file_records (lines 500-542) run by
\* several executions at once against one store: the lookup, the supersede
\* UPDATE and the INSERT are three statements, each committed on its own.
\* workers.procs[w] is execution w: its file, its record, where it is, and
\* the rows its lookup returned.

\* lines 500-520: the lookup and the decision taken on its result
WorkerLookup(w) ==
    /\ workers.procs[w].wpc = "lookup"
    /\ LET me == workers.procs[w]
           f == Fields(me.file_id, me.record)
       IN workers' =
            [workers EXCEPT !.procs[w] =
                [me EXCEPT !.existing = f.existing,
                           !.wpc = IF Unchanged(f.existing, f.record_hash)
                                   THEN "done"
                                   ELSE IF f.existing = {} THEN "insert"
                                   ELSE "update"]]
    /\ UNCHANGED <<pvars, ivars, written, crashed, hasher, calc, meteo, enam>>

\* lines 523-529: UPDATE ... WHERE row_id = latest['row_id']
WorkerSupersede(w) ==
    /\ workers.procs[w].wpc = "update"
    /\ LET me == workers.procs[w]
           f == Fields(me.file_id, me.record)
           latest == Latest(me.existing)
       IN rows' = { IF r.row_id = latest.row_id
                    THEN update_superseded(r, f.row_id, 1) ELSE r : r \in rows }
    /\ workers' = [workers EXCEPT !.procs[w].wpc = "insert"]
    /\ UNCHANGED <<files, pc, run, queue, prevQueue, fidx, ridx, now, cur, manifest>>
    /\ UNCHANGED <<ivars, written, crashed, hasher, calc, meteo, enam>>

\* lines 532-559: the INSERT, and the except clause when it raises
WorkerInsert(w) ==
    /\ workers.procs[w].wpc = "insert"
    /\ LET me == workers.procs[w]
           f == Fields(me.file_id, me.record)
           version == IF me.existing = {} THEN 1
                      ELSE next_version(Latest(me.existing))
           row == new_row(f.row_id, me.file_id, f.market_name, f.commodity_name,
                          f.variety, f.grade, f.date_iso, f.modal_price,
                          f.record_hash, version, w, 1, 1)
       IN IF insert_raises(rows, row)
          THEN /\ workers' = [workers EXCEPT !.procs[w].wpc = "done",
                                             !.procs[w].error = TRUE]
               /\ UNCHANGED rows
          ELSE /\ rows' = rows \cup {row}
               /\ workers' = [workers EXCEPT !.procs[w].wpc = "done"]
    /\ UNCHANGED <<files, pc, run, queue, prevQueue, fidx, ridx, now, cur, manifest>>
    /\ UNCHANGED <<ivars, written, crashed, hasher, calc, meteo, enam>>

InitParser ==
    /\ files = <<>>
    /\ rows = {}
    /\ pc = "idle"
    /\ run = 0
    /\ queue = <<>>
    /\ prevQueue = <<>>
    /\ fidx = 0
    /\ ridx = 0
    /\ now = 0
    /\ cur = NoCounts
    /\ manifest = NewManifest

----------------------------------------------------------------------------
(* The file ingestors: ingest_bronze_agmarket.py, ingest_bronze_meteo.py,  *)
(* ingest_bronze_enam.py                                                   *)

Ingestors == {"agmarket", "meteo", "enam"}
Extensions == {".json", ".jsonl", ".txt"}
Contents == {"c1", "c2"}

\* A directory entry.  link = 0 is a regular file; link = j is a symbolic
\* link to entry j, whose content and permissions it shares.
Entries ==
    [ext : Extensions, link : {0}, content : Contents, readable : {TRUE},
     exists : {TRUE}, size : {1}, utf8 : {TRUE}]
    \cup [ext : Extensions, link : {0}, content : {"c1"}, readable : {FALSE},
          exists : {TRUE}, size : {1}, utf8 : {TRUE}]
    \cup [ext : Extensions, link : 1..MaxDirFiles, content : {"c1"},
          readable : {TRUE}, exists : {TRUE}, size : {1}, utf8 : {TRUE}]

\* the directories: every link names another entry, a regular file
DirStates ==
    { d \in UNION { [1..n -> Entries] : n \in 0..MaxDirFiles } :
        \A i \in DOMAIN d :
            d[i].link # 0 =>
                /\ d[i].link \in DOMAIN d
                /\ d[i].link # i
                /\ d[d[i].link].link = 0 }

\* Path.resolve() of entry i
resolve(d, i) == IF d[i].link = 0 THEN i ELSE d[i].link

\* the bytes and the permission open() finds at entry i
file_bytes(d, i) == d[resolve(d, i)].content
can_read_any(d, i) == TRUE
can_read(d, i) == d[resolve(d, i)].readable

\* file_checksum with include_path: sha256 (taken as injective) of the
\* resolved path, a NUL byte and the content
file_checksum(d, i) == <<resolve(d, i), file_bytes(d, i)>>

\* row_count of parse_file_metadata
row_count(content) == IF content = "c1" THEN 1 ELSE 2

\* the safety limit on the size of a payload, in bytes
MAX_PAYLOAD_SIZE == 100000000

\* the sentinel strings stored in place of a payload
PAYLOAD_TOO_LARGE == "[PAYLOAD_TOO_LARGE: "
READ_ERROR == "[READ_ERROR: "

exists_always(d, i) == TRUE

\* fpath.stat() finds the file: an entry listed by os.walk may be gone by the
\* time it is opened
exists(d, i) == d[resolve(d, i)].exists

\* fpath.stat().st_size
file_size(d, i) == d[resolve(d, i)].size

\* the text read of the payload raises (UnicodeDecodeError: the bytes are
\* not UTF-8)
decodes(d, i) == d[resolve(d, i)].utf8

read_payload_unlimited(d, i, data_format) ==
    IF ~decodes(d, i)
    THEN [raw_payload |-> READ_ERROR,
          row_count |-> IF data_format = "jsonl" THEN row_count(file_bytes(d, i))
                        ELSE 1]
    ELSE [raw_payload |-> file_bytes(d, i),
          row_count |-> row_count(file_bytes(d, i))]

\* parse_file_metadata, lines 369-394: raw_payload and row_count.  An
\* oversized file is not opened; when the read raises, row_count keeps what
\* count_jsonl_rows (a binary read) gave it, or its initial 1.
read_payload(d, i, data_format) ==
    IF file_size(d, i) > MAX_PAYLOAD_SIZE
    THEN [raw_payload |-> PAYLOAD_TOO_LARGE, row_count |-> 1]
    ELSE IF ~decodes(d, i)
    THEN [raw_payload |-> READ_ERROR,
          row_count |-> IF data_format = "jsonl" THEN row_count(file_bytes(d, i))
                        ELSE 1]
    ELSE [raw_payload |-> file_bytes(d, i),
          row_count |-> row_count(file_bytes(d, i))]

\* the INSERT statement of each main: columns named, "?" placeholders and
\* parameters passed to con.execute
InsertColumns == [agmarket |-> 24, meteo |-> 26, enam |-> 24]
InsertPlaceholders == [agmarket |-> 24, meteo |-> 26, enam |-> 29]
InsertParameters == [agmarket |-> 24, meteo |-> 26, enam |-> 24]

\* con.execute(insert_sql, [...]) raises when the statement does not bind,
\* and on the PRIMARY KEY (file_id) and UNIQUE (checksum) constraints
statement_raises(ing) ==
    \/ InsertPlaceholders[ing] # InsertColumns[ing]
    \/ InsertParameters[ing] # InsertPlaceholders[ing]

constraint_raises(table, checksum) ==
    \E f \in table : f.file_id = checksum \/ f.checksum = checksum

NoStats ==
    [total_files_scanned |-> 0, files_ingested |-> 0, files_skipped |-> 0,
     files_errored |-> 0, total_rows_ingested |-> 0]

NewIngestManifest ==
    [ingested_files |-> <<>>, skipped_files |-> <<>>, errors |-> <<>>,
     stats |-> NoStats]

get_existing_checksums_unloaded(table, select_ok) == {}

\* get_existing_checksums: the checksums of the table, the empty set when
\* the query raises
get_existing_checksums(table, select_ok) ==
    IF select_ok THEN { f.checksum : f \in table } ELSE {}

add_forgets(seen, checksum) == seen

\* existing_checksums.add(checksum)
add(seen, checksum) == seen \cup {checksum}

skip_uncounted(m, path, checksum) ==
    [m EXCEPT
       !.skipped_files = Append(@,
           [path |-> path, file_id |-> checksum, reason |-> "already_ingested"])]

\* the branch `if checksum in existing_checksums` of main: the file is listed
\* in skipped_files and files_skipped is incremented
skip(m, path, checksum) ==
    [m EXCEPT
       !.skipped_files = Append(@,
           [path |-> path, file_id |-> checksum, reason |-> "already_ingested"]),
       !.stats.files_skipped = @ + 1]

\* a file of the data directory is rewritten between two runs
WriteFile(i, c) ==
    /\ ipc = "idle"
    /\ i \in DOMAIN dir
    /\ dir[i].link = 0
    /\ dir[i].readable
    /\ dir[i].content # c
    /\ dir' = [dir EXCEPT ![i].content = c]
    /\ UNCHANGED <<ingestor, store, irun, ipc, scanDir, prevScan, pos,
                   existing_checksums, imanifest, prevStats, prevStore, scans>>
    /\ UNCHANGED <<pvars, xvars>>

\* main up to the scan.  schema_ok: create_table_if_not_exists did not raise.
\* It raises when the store rejects one of its statements, and main then logs
\* and returns.  Whether it does depends on the table the database already
\* holds: agmarket's idx_market_norm (market_name) and enam's
\* idx_created_at_enam (created_at_ts) index columns that the CREATE TABLE of
\* the same script does not declare.
IngestStart(schema_ok, select_ok) ==
    /\ ipc = "idle"
    /\ irun' = irun + 1
    /\ IF schema_ok
       THEN /\ imanifest' = NewIngestManifest
            /\ existing_checksums' = get_existing_checksums(store, select_ok)
            /\ prevScan' = scanDir
            /\ prevStats' = imanifest.stats
            /\ prevStore' = store
            /\ scans' = scans + 1
            /\ scanDir' = dir
            /\ pos' = 1
            /\ ipc' = "scan"
       ELSE UNCHANGED <<imanifest, existing_checksums, prevScan, prevStats,
                        prevStore, scans, scanDir, pos, ipc>>
    /\ UNCHANGED <<ingestor, dir, store>>
    /\ UNCHANGED <<pvars, xvars>>

\* one iteration of the scan loop of main
ScanFile ==
    /\ ipc = "scan"
    /\ pos <= Len(scanDir)
    /\ pos' = pos + 1
    /\ LET e == scanDir[pos]
           checksum == file_checksum(scanDir, pos)
           data_format == IF e.ext = ".jsonl" THEN "jsonl" ELSE "json"
           payload == read_payload(scanDir, pos, data_format)
           metadata ==
               [file_id |-> checksum, checksum |-> checksum,
                original_filename |-> pos, file_path |-> resolve(scanDir, pos),
                raw_payload |-> payload.raw_payload,
                row_count |-> payload.row_count,
                data_format |-> data_format,
                ingest_job_id |-> irun]
           scanned == [imanifest EXCEPT !.stats.total_files_scanned = @ + 1]
           errored(type) ==
               [scanned EXCEPT
                  !.errors = Append(@, [path |-> pos, error_type |-> type]),
                  !.stats.files_errored = @ + 1]
       IN
       IF e.ext \notin {".json", ".jsonl"}
       THEN UNCHANGED <<store, existing_checksums, imanifest>>
       ELSE IF ~exists(scanDir, pos)
       THEN /\ imanifest' = errored("FileNotFoundError")
            /\ UNCHANGED <<store, existing_checksums>>
       ELSE IF ~can_read(scanDir, pos)
       THEN /\ imanifest' = errored("PermissionError")
            /\ UNCHANGED <<store, existing_checksums>>
       ELSE IF checksum \in existing_checksums
       THEN /\ imanifest' = skip(scanned, pos, checksum)
            /\ UNCHANGED <<store, existing_checksums>>
       ELSE IF statement_raises(ingestor) \/ constraint_raises(store, checksum)
       THEN /\ imanifest' = errored("Exception")
            /\ UNCHANGED <<store, existing_checksums>>
       ELSE /\ store' = store \cup {metadata}
            /\ existing_checksums' = add(existing_checksums, checksum)
            /\ imanifest' =
                 [scanned EXCEPT
                    !.ingested_files = Append(@,
                        [path |-> pos, file_id |-> checksum,
                         rows |-> metadata.row_count]),
                    !.stats.files_ingested = @ + 1,
                    !.stats.total_rows_ingested = @ + metadata.row_count]
    /\ UNCHANGED <<ingestor, dir, ipc, irun, scanDir, prevScan, prevStats,
                   prevStore, scans>>
    /\ UNCHANGED <<pvars, xvars>>

\* main after the scan: the manifest is written
IngestFinish ==
    /\ ipc = "scan"
    /\ pos > Len(scanDir)
    /\ ipc' = "idle"
    /\ written' = written + 1
    /\ UNCHANGED <<ingestor, dir, store, irun, scanDir, prevScan, pos,
                   existing_checksums, imanifest, prevStats, prevStore, scans>>
    /\ UNCHANGED <<pvars, crashed, workers, hasher, calc, meteo, enam>>

----------------------------------------------------------------------------
(* file_checksum (ingest_bronze_common.py) byte by byte.  hasher[k] is the *)
(* k-th call: its resolved path, the file's content, its chunk_size, the   *)
(* bytes given to h.update so far and the read offset.                     *)

\* the separator byte b"\x00"
NUL == 0

\* str(path.resolve()).encode("utf-8"): a path holds no NUL byte
PathBytes == UNION { [1..n -> {1}] : n \in 1..MaxBytes }

\* the bytes of a file: any byte, NUL included
ContentBytes == UNION { [1..n -> {NUL, 1}] : n \in 0..MaxBytes }

ChunkSizes == {1, 2}

\* h.update(data): the hash object absorbs data after what it holds
update(h, data) == h \o data

update_path_no_separator(h, full_path) == update(h, full_path)

\* lines 92-94: the path, then one NUL byte
update_path(h, full_path) == update(update(h, full_path), <<NUL>>)

\* f.read(chunk_size) at the offset
read(content, offset, chunk_size) ==
    SubSeq(content, offset + 1,
           IF offset + chunk_size < Len(content) THEN offset + chunk_size
           ELSE Len(content))

\* lines 78-94: the hash object is made and given the path
HashStart(k) ==
    /\ hasher[k].hpc = "start"
    /\ hasher' = [hasher EXCEPT ![k].fed = update_path(<<>>, hasher[k].path),
                                ![k].hpc = "read"]
    /\ UNCHANGED <<pvars, ivars, written, crashed, workers, calc, meteo, enam>>

\* lines 99-103: one iteration of the read loop; an empty chunk ends it and
\* the digest is returned
ReadChunk(k) ==
    /\ hasher[k].hpc = "read"
    /\ LET chunk == read(hasher[k].content, hasher[k].offset, hasher[k].chunk_size) IN
       hasher' = IF chunk = <<>>
                 THEN [hasher EXCEPT ![k].hpc = "done"]
                 ELSE [hasher EXCEPT ![k].fed = update(@, chunk),
                                     ![k].offset = @ + Len(chunk)]
    /\ UNCHANGED <<pvars, ivars, written, crashed, workers, calc, meteo, enam>>

\* the ingestor at rest: no run yet, an empty store
IngestIdle ==
    /\ store = {}
    /\ ipc = "idle"
    /\ irun = 0
    /\ scanDir = <<>>
    /\ prevScan = <<>>
    /\ pos = 0
    /\ existing_checksums = {}
    /\ imanifest = NewIngestManifest
    /\ prevStats = NoStats
    /\ prevStore = {}
    /\ scans = 0

\* nothing else is going on: no manifest written, no interrupted run, no
\* concurrent worker, no checksum and no helper function under way
InitQuiet ==
    /\ written = 0
    /\ crashed = {}
    /\ workers = <<>>
    /\ hasher = <<>>
    /\ calc = <<>>
    /\ meteo = <<>>
    /\ enam = <<>>

Init ==
    /\ InitParser
    /\ IngestIdle
    /\ InitQuiet
    /\ ingestor = "agmarket"
    /\ dir = <<>>

InitIngest ==
    /\ InitParser
    /\ IngestIdle
    /\ InitQuiet
    /\ ingestor \in Ingestors
    /\ dir \in DirStates

Next ==
    \/ \E payload \in Payloads :
          /\ run < MaxRuns
          /\ Len(files) < MaxFiles
          /\ TotalRecords(files) + Len(payload) <= MaxRecords
          /\ AddBronzeFile(payload, FALSE)
    \/ run < MaxRuns /\ StartRun
    \/ BeginFile
    \/ ProcessRecord
    \/ EndFile
    \/ FinishRun

Spec == Init /\ [][Next]_vars

NextIngest ==
    \/ \E i \in 1..MaxDirFiles, c \in Contents :
          irun < MaxIngestRuns /\ WriteFile(i, c)
    \/ \E schema_ok \in BOOLEAN :
          irun < MaxIngestRuns /\ IngestStart(schema_ok, TRUE)
    \/ ScanFile
    \/ IngestFinish

SpecIngest == InitIngest /\ [][NextIngest]_vars

\* Two calls of file_checksum, one after the other, on any two files.
InitChecksum ==
    /\ InitParser
    /\ IngestIdle
    /\ ingestor = "agmarket"
    /\ dir = <<>>
    /\ written = 0
    /\ crashed = {}
    /\ workers = <<>>
    /\ calc = <<>>
    /\ meteo = <<>>
    /\ enam = <<>>
    /\ hasher \in [1..2 -> [path : PathBytes, content : ContentBytes,
                             chunk_size : ChunkSizes, fed : {<<>>},
                             offset : {0}, hpc : {"start"}]]

NextChecksum ==
    \/ \E k \in 1..2 :
          (k = 1 \/ hasher[1].hpc = "done") /\ HashStart(k)
    \/ \E k \in 1..2 : ReadChunk(k)

SpecChecksum == InitChecksum /\ [][NextChecksum]_vars

\* The ingestors over a fixed directory, with a store whose SELECT of the
\* checksums may raise at the start of a run.
NextIngestFaults ==
    \/ \E select_ok \in BOOLEAN :
          irun < MaxIngestRuns /\ IngestStart(TRUE, select_ok)
    \/ ScanFile
    \/ IngestFinish

SpecIngestFaults == InitIngest /\ [][NextIngestFaults]_vars

\* One natural key observed in successive single-record bronze files, all
\* parsed by one run.
ChainPrices == {2000, 2100, 2200}

ChainRecords ==
    [market_name : {"Alpha"}, commodity_name : {"Wheat"}, variety : {""},
     grade : {""}, reported_date : {"01 Jan 2024"}, modal_price : ChainPrices]

NextChain ==
    \/ \E record \in ChainRecords :
          /\ run = 0
          /\ Len(files) < MaxChain
          /\ AddBronzeFile(<<record>>, FALSE)
    \/ run = 0 /\ StartRun
    \/ BeginFile
    \/ ProcessRecord
    \/ EndFile
    \/ FinishRun

SpecChain == Init /\ [][NextChain]_vars

\* Single-record bronze files, parsed by runs that may be interrupted and are
\* then run again over the same files.
NextCrash ==
    \/ \E record \in GoodRecords :
          /\ run = 0
          /\ Len(files) < MaxFiles
          /\ AddBronzeFile(<<record>>, FALSE)
    \/ run < MaxRuns /\ StartRun
    \/ BeginFile
    \/ ProcessRecord
    \/ EndFile
    \/ FinishRun
    \/ Cardinality(crashed) < MaxCrashes /\ Crash
    \/ Cardinality(crashed) < MaxCrashes /\ CrashInRecord

SpecCrash == Init /\ [][NextCrash]_vars

\* One bronze file with any payload text and data_format, parsed by one run.
NextPayload ==
    \/ \E payload \in PayloadTexts, data_format \in DataFormats :
          /\ run = 0
          /\ files = <<>>
          /\ AddPayloadFile(payload, data_format)
    \/ run = 0 /\ StartRun
    \/ BeginFile
    \/ ProcessRecord
    \/ EndFile
    \/ FinishRun

SpecPayload == Init /\ [][NextPayload]_vars

\* One market written in different letter case and with surrounding blanks,
\* in successive single-record bronze files parsed by one run.
NormMarkets == {"Alpha", "ALPHA", " Alpha "}

NormRecords ==
    [market_name : NormMarkets, commodity_name : {"Wheat"}, variety : {""},
     grade : {""}, reported_date : {"01 Jan 2024"}, modal_price : Prices]

NextNorm ==
    \/ \E record \in NormRecords :
          /\ run = 0
          /\ Len(files) < MaxFiles
          /\ AddBronzeFile(<<record>>, FALSE)
    \/ run = 0 /\ StartRun
    \/ BeginFile
    \/ ProcessRecord
    \/ EndFile
    \/ FinishRun

SpecNorm == Init /\ [][NextNorm]_vars

\* Single-record bronze files of one market, with and without variety and
\* grade, parsed on a store whose lookup of the existing versions may raise.
LookupRecords ==
    [market_name : {"Alpha"}, commodity_name : {"Wheat"}, variety : {""},
     grade : {""}, reported_date : {"01 Jan 2024"}, modal_price : Prices]
    \cup
    [market_name : {"Alpha"}, commodity_name : {"Wheat"}, variety : {"Desi"},
     grade : {"FAQ"}, reported_date : {"01 Jan 2024"}, modal_price : Prices]

NextLookup ==
    \/ \E record \in LookupRecords :
          /\ run < MaxRuns
          /\ Len(files) < MaxFiles
          /\ AddBronzeFile(<<record>>, FALSE)
    \/ run < MaxRuns /\ StartRun
    \/ BeginFile
    \/ \E lookup_ok \in BOOLEAN : ProcessRecordLookup(lookup_ok)
    \/ EndFile
    \/ FinishRun

SpecLookup == Init /\ [][NextLookup]_vars

\* Single-record bronze files parsed by runs whose clocks disagree: each call
\* of process_file_records reads any time of Clock, earlier or later than the
\* times already stored.
MaxClock == 2
Clock == 1..MaxClock

SkewRecords ==
    [market_name : {"Alpha"}, commodity_name : {"Wheat"}, variety : {""},
     grade : {""}, reported_date : {"01 Jan 2024"}, modal_price : Prices]

NextSkew ==
    \/ \E record \in SkewRecords :
          /\ run < MaxRuns
          /\ Len(files) < MaxFiles
          /\ AddBronzeFile(<<record>>, FALSE)
    \/ run < MaxRuns /\ StartRun
    \/ \E ts \in Clock : BeginFileAt(ts)
    \/ ProcessRecord
    \/ EndFile
    \/ FinishRun

SpecSkew == Init /\ [][NextSkew]_vars

\* A data directory with files in trouble (oversized, not UTF-8, unreadable,
\* gone since it was listed), one ingestion after the other, and the parser
\* reading the bronze files the agmarknet ingestor stored.
TroubledEntries ==
    [ext : {".json", ".jsonl"}, link : {0}, content : Contents,
     readable : {TRUE}, exists : {TRUE}, size : {1}, utf8 : {TRUE}]
    \cup [ext : {".json"}, link : {0}, content : {"c1"}, readable : BOOLEAN,
          exists : {TRUE}, size : {MAX_PAYLOAD_SIZE + 1}, utf8 : {TRUE}]
    \cup [ext : {".json", ".jsonl"}, link : {0}, content : {"c2"},
          readable : {TRUE}, exists : {TRUE}, size : {1}, utf8 : {FALSE}]
    \cup [ext : {".json"}, link : {0}, content : {"c1"}, readable : {FALSE},
          exists : {TRUE}, size : {1}, utf8 : {TRUE}]
    \cup [ext : {".json"}, link : {0}, content : {"c1"}, readable : {TRUE},
          exists : {FALSE}, size : {1}, utf8 : {TRUE}]

\* the check at the head of process_file_records: raw_payload starts with
\* one of the two sentinels
is_payload_error(raw_payload) == raw_payload \in {READ_ERROR, PAYLOAD_TOO_LARGE}

\* the records of a stored payload
payload_records(raw_payload) ==
    CASE raw_payload = "c1" -> <<RecA>>
      [] raw_payload = "c2" -> <<RecA, RecB>>
      [] OTHER -> <<>>

\* main of the parser fetches the bronze files of the agmarknet ingestor
\* (SELECT ... FROM agmarknet_bronze_files): a stored file becomes one of the
\* parser's files
FetchFile ==
    /\ pc = "idle"
    /\ ipc = "idle"
    /\ ingestor = "agmarket"
    /\ \E f \in store :
          /\ \A i \in DOMAIN files : files[i].file_id # f.file_id
          /\ files' = Append(files,
                [file_id |-> f.file_id,
                 payload_error |-> is_payload_error(f.raw_payload),
                 raw_payload |-> f.raw_payload,
                 records |-> payload_records(f.raw_payload)])
    /\ UNCHANGED <<rows, pc, run, queue, prevQueue, fidx, ridx, now, cur, manifest>>
    /\ UNCHANGED <<ivars, xvars>>

InitTroubled ==
    /\ InitParser
    /\ IngestIdle
    /\ InitQuiet
    /\ ingestor \in {"agmarket", "meteo"}
    /\ dir \in UNION { [1..n -> TroubledEntries] : n \in 1..MaxDirFiles }

NextTroubled ==
    \/ pc = "idle" /\ irun < MaxIngestRuns /\ IngestStart(TRUE, TRUE)
    \/ ScanFile
    \/ IngestFinish
    \/ FetchFile
    \/ ipc = "idle" /\ run < MaxRuns /\ StartRun
    \/ BeginFile
    \/ ProcessRecord
    \/ EndFile
    \/ FinishRun

SpecTroubled == InitTroubled /\ [][NextTroubled]_vars

\* The enumeration of the data directory: for root, dirs, files in
\* os.walk(DATA_DIR): for fname in sorted(files).  The tree is a root with
\* files and two subdirectories with files; a name is its first letter and
\* its extension, and names compare by their first letter.
MaxWalkRuns == 2

DirNames == { [stem |-> "a", ext |-> ""], [stem |-> "c", ext |-> ""] }
FileNames ==
    { [stem |-> "b", ext |-> ".json"], [stem |-> "d", ext |-> ".jsonl"],
      [stem |-> "e", ext |-> ".txt"] }

Trees == [root : SUBSET FileNames, sub : [DirNames -> SUBSET FileNames]]

\* the order of the strings: "a" < "b..." < "c" < "d..." < "e..."
Letter(name) == name.stem

LetterRank == [a |-> 1, b |-> 2, c |-> 3, d |-> 4, e |-> 5]

name_less(x, y) == LetterRank[Letter(x)] < LetterRank[Letter(y)]

\* sorted(files)
RECURSIVE sorted(_)
sorted(names) ==
    IF names = {} THEN <<>>
    ELSE LET first == CHOOSE x \in names : \A y \in names \ {x} : name_less(x, y)
         IN <<first>> \o sorted(names \ {first})

\* the orders in which os.scandir may list the subdirectories: os.walk
\* appends them to dirs as the operating system returns them, and main does
\* not sort dirs
ScandirOrders ==
    { o \in [1..Cardinality(DirNames) -> DirNames] :
        \A i, j \in DOMAIN o : i # j => o[i] # o[j] }

\* os.walk(DATA_DIR), top-down: the root first, then each subdirectory
os_walk(tree, order) ==
    <<[root |-> <<>>, files |-> tree.root]>> \o
    [i \in DOMAIN order |-> [root |-> <<order[i]>>, files |-> tree.sub[order[i]]]]

\* fname.endswith('.json') or fname.endswith('.jsonl')
recognized(fname) == fname.ext \in {".json", ".jsonl"}

\* the paths the inner loop visits in one directory: Path(root) / fname
RECURSIVE visit_files(_, _)
visit_files(root, fnames) ==
    IF fnames = <<>> THEN <<>>
    ELSE (IF recognized(Head(fnames)) THEN <<root \o <<Head(fnames)>>>> ELSE <<>>)
         \o visit_files(root, Tail(fnames))

\* the paths one scan visits, in order
RECURSIVE visit(_)
visit(walk) ==
    IF walk = <<>> THEN <<>>
    ELSE visit_files(Head(walk).root, sorted(Head(walk).files)) \o visit(Tail(walk))

InitWalk ==
    /\ InitParser
    /\ IngestIdle
    /\ ingestor = "agmarket"
    /\ dir = <<>>
    /\ written = 0
    /\ crashed = {}
    /\ workers = <<>>
    /\ hasher = <<>>
    /\ meteo = <<>>
    /\ enam = <<>>
    /\ calc \in [tree : Trees, scans : {<<>>}]

\* one run of the scan loop of main over the tree: every visited path adds
\* one to total_files_scanned
WalkTree(order) ==
    /\ "scans" \in DOMAIN calc
    /\ LET visited == visit(os_walk(calc.tree, order)) IN
       calc' = [calc EXCEPT !.scans = Append(@,
                   [visited |-> visited, total_files_scanned |-> Len(visited)])]
    /\ UNCHANGED <<pvars, ivars, written, crashed, workers, hasher, meteo, enam>>

NextWalk ==
    \E order \in ScandirOrders : Len(calc.scans) < MaxWalkRuns /\ WalkTree(order)

SpecWalk == InitWalk /\ [][NextWalk]_vars

\* Concurrent executions of the versioning step, each on one record of one
\* bronze file, scheduled freely or serialized per natural key.
WorkerRecords ==
    [market_name : Markets, commodity_name : {"Wheat"}, variety : {""},
     grade : {""}, reported_date : {"01 Jan 2024"}, modal_price : Prices]
    \cup
    [market_name : Markets, commodity_name : {"Wheat"}, variety : {"Desi"},
     grade : {"FAQ"}, reported_date : {"01 Jan 2024"}, modal_price : Prices]

\* the bronze files the records come from
WorkerFiles == {1, 2}

\* the natural key of the record of execution p
WorkerKey(p) ==
    LET f == Fields(p.file_id, p.record) IN
    <<f.market_name, f.commodity_name, f.variety, f.grade, f.date_iso>>

\* execution w is between its lookup and the end of its step
InStep(w) == workers.procs[w].wpc \in {"update", "insert"}

\* the discipline of a serialized versioning step: a step starts only when
\* no other execution is inside a step on the same natural key
PerKeySerial(w) ==
    workers.serialized =>
        \A u \in DOMAIN workers.procs :
            (u # w /\ InStep(u)) =>
                WorkerKey(workers.procs[u]) # WorkerKey(workers.procs[w])

InitWorkers ==
    /\ InitParser
    /\ IngestIdle
    /\ ingestor = "agmarket"
    /\ dir = <<>>
    /\ written = 0
    /\ crashed = {}
    /\ hasher = <<>>
    /\ calc = <<>>
    /\ meteo = <<>>
    /\ enam = <<>>
    /\ workers \in
         [serialized : BOOLEAN,
          procs : [1..MaxWorkers ->
                     [file_id : WorkerFiles, record : WorkerRecords,
                      wpc : {"lookup"}, existing : {{}}, error : {FALSE}]]]

NextWorkers ==
    \/ \E w \in 1..MaxWorkers : PerKeySerial(w) /\ WorkerLookup(w)
    \/ \E w \in 1..MaxWorkers : WorkerSupersede(w)
    \/ \E w \in 1..MaxWorkers : WorkerInsert(w)

SpecWorkers == InitWorkers /\ [][NextWorkers]_vars

\* parse_numeric called on one value of a record, any value json.loads
\* can give.
MaxChars == 3       \* characters of a string built from NumericChars

NumericChars == {"1", ",", ".", " ", "n", "a", "N", "A", "/"}

NumericStrings ==
    UNION { [1..n -> NumericChars] : n \in 0..MaxChars }
    \cup { <<"1", ",", "2", "3", "4", ".", "5">>,
           <<"n", "u", "l", "l">>, <<"N", "U", "L", "L">>,
           <<"n", "o", "n", "e">>, <<"N", "o", "n", "e">>,
           <<" ", "N", "/", "A", " ">>, <<"1", "2", "x">> }

NumericValues ==
    {None, py_list, py_bool(0), py_bool(1), py_float(2, <<"5">>)}
    \cup { py_int(n) : n \in {0, 12, FloatMax, FloatMax + 1} }
    \cup { py_str(s) : s \in NumericStrings }

\* the call has not returned
Pending == [type |-> "pending", n |-> 0, s |-> <<>>]

InitNumeric ==
    /\ InitParser
    /\ IngestIdle
    /\ ingestor = "agmarket"
    /\ dir = <<>>
    /\ written = 0
    /\ crashed = {}
    /\ workers = <<>>
    /\ hasher = <<>>
    /\ meteo = <<>>
    /\ enam = <<>>
    /\ calc \in [value : NumericValues, result : {Pending}]

\* parse_numeric(value) returns, or raises what float() raised
CallParseNumeric ==
    /\ calc.result = Pending
    /\ calc' = [calc EXCEPT !.result = parse_numeric(calc.value)]
    /\ UNCHANGED <<pvars, ivars, written, crashed, workers, hasher, meteo, enam>>

NextNumeric == CallParseNumeric

SpecNumeric == InitNumeric /\ [][NextNumeric]_vars

\* extract_year_month_from_path (ingest_bronze_agmarket.py, and the shorter
\* one of ingest_bronze_common.py that the eNAM ingestor imports).  A path is
\* the sequence of its parts, a part a sequence of characters.
MaxParts == 3

DecimalDigits == {"0", "1", "2", "3", "4", "5", "9"}

\* a character str.isdigit() accepts and int() does not: SUPERSCRIPT TWO
Superscripts == {"^2"}

DecimalValue ==
    [c \in DecimalDigits |->
        CASE c = "0" -> 0 [] c = "1" -> 1 [] c = "2" -> 2 [] c = "3" -> 3
          [] c = "4" -> 4 [] c = "5" -> 5 [] c = "9" -> 9]

\* part.isdigit()
isdigit(part) ==
    /\ part # <<>>
    /\ \A i \in DOMAIN part : part[i] \in DecimalDigits \cup Superscripts

RECURSIVE decimal(_)
decimal(ds) ==
    IF ds = <<>> THEN 0
    ELSE decimal(SubSeq(ds, 1, Len(ds) - 1)) * 10 + DecimalValue[ds[Len(ds)]]

\* int(part): ValueError on a character that is no decimal digit
int(part) ==
    IF \A i \in DOMAIN part : part[i] \in DecimalDigits
    THEN py_int(decimal(part))
    ELSE ValueError

\* part.lower()[:3]
lower3(part) ==
    LET l == [i \in DOMAIN part |->
                CASE part[i] = "A" -> "a" [] part[i] = "M" -> "m" [] OTHER -> part[i]]
    IN SubSeq(l, 1, IF Len(l) < 3 THEN Len(l) ELSE 3)

\* MONTH_MAP, the keys a three-letter lookup can hit
MONTH_MAP ==
    [k \in { <<"j", "a", "n">>, <<"f", "e", "b">>, <<"m", "a", "r">>,
              <<"a", "p", "r">>, <<"m", "a", "y">>, <<"j", "u", "n">>,
              <<"j", "u", "l">>, <<"a", "u", "g">>, <<"s", "e", "p">>,
              <<"o", "c", "t">>, <<"n", "o", "v">>, <<"d", "e", "c">> } |->
        CASE k = <<"j", "a", "n">> -> 1 [] k = <<"f", "e", "b">> -> 2
          [] k = <<"m", "a", "r">> -> 3 [] k = <<"a", "p", "r">> -> 4
          [] k = <<"m", "a", "y">> -> 5 [] k = <<"j", "u", "n">> -> 6
          [] k = <<"j", "u", "l">> -> 7 [] k = <<"a", "u", "g">> -> 8
          [] k = <<"s", "e", "p">> -> 9 [] k = <<"o", "c", "t">> -> 10
          [] k = <<"n", "o", "v">> -> 11 [] k = <<"d", "e", "c">> -> 12]

\* MONTH_MAP.get(key)
month_map_get(key) ==
    IF key \in DOMAIN MONTH_MAP THEN py_int(MONTH_MAP[key]) ELSE None

\* re.match(r"^\d{4}[-_]", part)
match_combined(part) ==
    /\ Len(part) >= 5
    /\ \A i \in 1..4 : part[i] \in DecimalDigits
    /\ part[5] \in {"-", "_"}

\* one iteration of `for part in path.parts`; st holds year, month and the
\* exception raised, if any.  combined: the version of the function has the
\* branch for 'YYYY-MM' parts.
scan_part(st, part, combined) ==
    IF st.raised # None THEN st
    ELSE IF isdigit(part) /\ Len(part) = 4
    THEN IF int(part) = ValueError THEN [st EXCEPT !.raised = ValueError]
         ELSE [st EXCEPT !.year = int(part)]
    ELSE IF combined /\ match_combined(part)
    THEN [st EXCEPT !.year = int(SubSeq(part, 1, 4)),
                    !.month = month_map_get(lower3(SubSeq(part, 6, Len(part))))]
    ELSE IF lower3(part) \in DOMAIN MONTH_MAP
    THEN [st EXCEPT !.month = py_int(MONTH_MAP[lower3(part)])]
    ELSE IF isdigit(part) /\ Len(part) = 2
    THEN IF int(part) = ValueError THEN [st EXCEPT !.raised = ValueError]
         ELSE [st EXCEPT !.month = int(part)]
    ELSE st

RECURSIVE scan_parts(_, _, _)
scan_parts(st, parts, combined) ==
    IF parts = <<>> THEN st
    ELSE scan_parts(scan_part(st, Head(parts), combined), Tail(parts), combined)

\* `a or b` on an Optional[int]: None and 0 are false
py_or(a, b) == IF a = None \/ a = py_int(0) THEN b ELSE a

\* extract_year_month_from_path(path): (year, month), or the exception
extract_year_month_from_path(parts, mtime, combined) ==
    LET st == scan_parts([year |-> None, month |-> None, raised |-> None],
                         parts, combined)
    IN  IF st.raised # None THEN st.raised
        ELSE IF st.year = None \/ st.month = None
        THEN [year |-> py_or(st.year, py_int(mtime.year)),
              month |-> py_or(st.month, py_int(mtime.month))]
        ELSE [year |-> st.year, month |-> st.month]

\* the parts of the paths
PathParts ==
    { <<"2", "0", "2", "5">>, <<"0", "4">>, <<"1", "3">>, <<"0", "0">>,
      <<"A", "p", "r">>, <<"2", "0", "2", "5", "-", "0", "4">>,
      <<"2", "0", "2", "5", "_", "A", "p", "r">>, <<"M", "a", "r", "k">>,
      <<"x">>, <<"^2", "0", "2", "5">> }

Paths == UNION { [1..n -> PathParts] : n \in 1..MaxParts }

\* the last-modified times of the files
Mtimes == { [year |-> 2020, month |-> 7] }

InitYearMonth ==
    /\ InitParser
    /\ IngestIdle
    /\ ingestor = "agmarket"
    /\ dir = <<>>
    /\ written = 0
    /\ crashed = {}
    /\ workers = <<>>
    /\ hasher = <<>>
    /\ meteo = <<>>
    /\ enam = <<>>
    /\ calc \in [path : Paths, mtime : Mtimes, combined : BOOLEAN,
                  result : {Pending}]

\* extract_year_month_from_path(path) returns or raises
CallExtractYearMonth ==
    /\ calc.result = Pending
    /\ calc' = [calc EXCEPT !.result =
                  extract_year_month_from_path(calc.path, calc.mtime, calc.combined)]
    /\ UNCHANGED <<pvars, ivars, written, crashed, workers, hasher, meteo, enam>>

NextYearMonth == CallExtractYearMonth

SpecYearMonth == InitYearMonth /\ [][NextYearMonth]_vars

\* Lines 479-516 of process_file_records on two records of one natural key,
\* each against the same stored versions.  A record is the JSON object as
\* written: its <<key, value>> pairs in the order of the text.
PRICE_FIELDS == <<"arrivals", "min_price", "max_price", "modal_price">>

FieldValues ==
    [arrivals |-> {py_int(12), py_str(<<"1", "2">>)},
     modal_price |-> {None, py_int(1234), py_str(<<"1", ",", "2", "3", "4">>),
                      py_int(21)},
     state_name |-> {py_str(<<"S">>), py_str(<<"T">>)}]

HashRecords ==
    { r \in UNION { [1..n -> UNION { {<<k, v>> : v \in FieldValues[k]} :
                                       k \in DOMAIN FieldValues }] :
                    n \in 0..3 } :
        \A i, j \in DOMAIN r : i # j => r[i][1] # r[j][1] }

get_first(record, key) == IF record = <<>> THEN None ELSE record[1][2]

\* record.get(key): the value written for the key, None when there is none
get(record, key) ==
    IF \E i \in DOMAIN record : record[i][1] = key
    THEN record[CHOOSE i \in DOMAIN record : record[i][1] = key][2]
    ELSE None

\* lines 480-495: the four measurement fields are coerced and hashed
record_hash_of(record) ==
    compute_record_hash(parse_numeric(get(record, "arrivals")),
                        parse_numeric(get(record, "min_price")),
                        parse_numeric(get(record, "max_price")),
                        parse_numeric(get(record, "modal_price")))

\* lines 506-520: what is done with the record given the stored versions
decision(existing, record_hash) ==
    IF existing = {} THEN "insert"
    ELSE IF Unchanged(existing, record_hash) THEN "skip"
    ELSE "supersede"

\* the versions stored for the key: one row, of either of two measurements
StoredVersions ==
    { {[version |-> 1, record_hash |-> h]} :
        h \in { compute_record_hash(None, None, None, py_float(1234, <<>>)),
                compute_record_hash(py_float(12, <<>>), None, None, None) } }

InitHash ==
    /\ InitParser
    /\ IngestIdle
    /\ ingestor = "agmarket"
    /\ dir = <<>>
    /\ written = 0
    /\ crashed = {}
    /\ workers = <<>>
    /\ hasher = <<>>
    /\ meteo = <<>>
    /\ enam = <<>>
    /\ calc \in [file_a : {1}, a : HashRecords, file_b : {1, 2}, b : HashRecords,
                  existing : StoredVersions, done : {FALSE},
                  hash_a : {<<>>}, hash_b : {<<>>},
                  decision_a : {""}, decision_b : {""}]

\* both records are taken through lines 479-520
CallRecordHash ==
    /\ ~calc.done
    /\ calc' = [calc EXCEPT
                  !.done = TRUE,
                  !.hash_a = record_hash_of(calc.a),
                  !.hash_b = record_hash_of(calc.b),
                  !.decision_a = decision(calc.existing, record_hash_of(calc.a)),
                  !.decision_b = decision(calc.existing, record_hash_of(calc.b))]
    /\ UNCHANGED <<pvars, ivars, written, crashed, workers, hasher, meteo, enam>>

NextHash == CallRecordHash

SpecHash == InitHash /\ [][NextHash]_vars

\* check_data_quality of parse_broze_agmarknet.py and of parse_bronze_enam.py
\* called on one record.  The record is a dict: a function of its keys, with
\* Absent for a key it does not hold.
REQUIRED_FIELDS ==
    <<"state_name", "district_name", "market_name", "commodity_name",
      "reported_date">>

ENAM_REQUIRED_FIELDS == <<"state", "apmc", "commodity", "reported_date">>

ENAM_PRICE_FIELDS ==
    <<"min_price", "modal_price", "max_price", "commodity_arrivals",
      "commodity_traded">>

Absent == [type |-> "absent", n |-> 0, s |-> <<>>]

Range(fields) == { fields[i] : i \in DOMAIN fields }

\* the records: a required field is absent, None, '' or a name; a price
\* field is absent, None or a value that is not None
QualityRecords(required, price) ==
    { r \in [Range(required) \cup Range(price) ->
                {Absent, None, py_str(<<>>), py_str(<<"x">>)}] :
        \A f \in Range(price) : r[f] # py_str(<<"x">>) }

required_missing_unless_empty(record, field) ==
    record[field] = Absent \/ record[field] = None

\* line 218: field not in record or record[field] is None or
\* record[field] == ''
required_missing(record, field) ==
    record[field] = Absent \/ record[field] = None \/ record[field] = py_str(<<>>)

\* line 224: field in record and record[field] is None
price_null(record, field) ==
    record[field] # Absent /\ record[field] = None

\* lines 217-220: the loop over the required fields, from the state `q` of
\* has_nulls, is_complete and null_count
RECURSIVE check_required(_, _, _)
check_required(record, fields, q) ==
    IF fields = <<>> THEN q
    ELSE check_required(record, Tail(fields),
            IF required_missing(record, Head(fields))
            THEN [q EXCEPT !.is_complete = FALSE, !.null_count = @ + 1]
            ELSE q)

\* lines 223-226: the loop over the price fields
RECURSIVE check_prices(_, _, _)
check_prices(record, fields, q) ==
    IF fields = <<>> THEN q
    ELSE check_prices(record, Tail(fields),
            IF price_null(record, Head(fields))
            THEN [q EXCEPT !.has_nulls = TRUE, !.null_count = @ + 1]
            ELSE q)

\* check_data_quality of parse_broze_agmarknet.py
check_data_quality(record) ==
    check_prices(record, PRICE_FIELDS,
        check_required(record, REQUIRED_FIELDS,
            [has_nulls |-> FALSE, is_complete |-> TRUE, null_count |-> 0]))

\* check_data_quality of parse_bronze_enam.py
enam_check_data_quality(record) ==
    check_prices(record, ENAM_PRICE_FIELDS,
        check_required(record, ENAM_REQUIRED_FIELDS,
            [has_nulls |-> FALSE, is_complete |-> TRUE, null_count |-> 0]))

InitQuality ==
    /\ InitParser
    /\ IngestIdle
    /\ ingestor = "agmarket"
    /\ dir = <<>>
    /\ written = 0
    /\ crashed = {}
    /\ workers = <<>>
    /\ hasher = <<>>
    /\ meteo = <<>>
    /\ enam = <<>>
    /\ calc \in
         [parser : {"agmarknet"},
          record : QualityRecords(REQUIRED_FIELDS, PRICE_FIELDS),
          returned : {FALSE}, result : {<<>>}]
         \cup
         [parser : {"enam"},
          record : QualityRecords(ENAM_REQUIRED_FIELDS, ENAM_PRICE_FIELDS),
          returned : {FALSE}, result : {<<>>}]

\* check_data_quality(record) returns
CallCheckDataQuality ==
    /\ ~calc.returned
    /\ calc' = [calc EXCEPT
                  !.returned = TRUE,
                  !.result = IF calc.parser = "agmarknet"
                             THEN check_data_quality(calc.record)
                             ELSE enam_check_data_quality(calc.record)]
    /\ UNCHANGED <<pvars, ivars, written, crashed, workers, hasher, meteo, enam>>

NextQuality == CallCheckDataQuality

SpecQuality == InitQuality /\ [][NextQuality]_vars

----------------------------------------------------------------------------
(* The meteo row parser: main of parse_bronze_meteo.py.  meteo.files is    *)
(* openmeteo_bronze_files in ingest_ts order, meteo.rows is                *)
(* openmeteo_bronze_rows; the other fields are the locals of main.         *)

MaxMeteoFiles == 2  \* bronze files of the meteo source
MaxMeteoRuns == 2   \* runs of the meteo parser

\* the payload texts of the meteo bronze files: empty, one or two objects
\* on lines of their own, an array, and texts with a line that is no JSON
\* or no object
MeteoTexts ==
    { <<>>, <<"objA">>, <<"objA", "objB">>, <<"objA", "objA">>, <<"arr">>,
      <<"bad">>, <<"objA", "bad">>, <<"arr", "objA">>, <<"objA", "arr">> }

\* parse_status of a file no parser has written to
NoStatus == ""

\* the INSERT of lines 162-171: columns named, "?" placeholders, and the
\* parameters of lines 254-273
MeteoInsert == [columns |-> 18, placeholders |-> 19, parameters |-> 18]

\* con.execute(insert_sql, [...]) raises when the statement does not bind
\* and when the row_id is stored already
meteo_insert_raises(table, row) ==
    \/ MeteoInsert.placeholders # MeteoInsert.columns
    \/ MeteoInsert.parameters # MeteoInsert.placeholders
    \/ \E r \in table : r.row_id = row.row_id

\* line 211: rec.get("date") or rec.get("time") or ...; the records here
\* carry none of these keys
date_str(rec) == "None"

\* compute_row_checksum: sha256 (taken as injective) of file_id, the date
\* string and the record serialized with sorted keys
compute_row_checksum(file_id, date, raw_vars_obj) == <<file_id, date, raw_vars_obj>>

\* load_existing_row_checksums
load_existing_row_checksums(table) == { r.row_checksum : r \in table }

update_parse_status_and_payload(table, file_id, status) ==
    [i \in DOMAIN table |->
        IF table[i].file_id = file_id
        THEN [table[i] EXCEPT !.parse_status = status, !.raw_payload = <<>>]
        ELSE table[i]]

\* UPDATE openmeteo_bronze_files SET parse_status = ? WHERE file_id = ?
update_parse_status(table, file_id, status) ==
    [i \in DOMAIN table |->
        IF table[i].file_id = file_id
        THEN [table[i] EXCEPT !.parse_status = status]
        ELSE table[i]]

NewMeteoManifest == [files_processed |-> <<>>, files_skipped |-> <<>>, errors |-> <<>>]

MeteoIdle ==
    [files |-> <<>>, rows |-> {}, pc |-> "idle", run |-> 0, bronze_files |-> <<>>,
     fidx |-> 0, records |-> <<>>, ridx |-> 0, existing_checksums |-> {},
     inserted |-> 0, skipped |-> 0, warnings |-> <<>>,
     manifest |-> NewMeteoManifest, written |-> 0, ran |-> <<>>]

MeteoOthers == <<pvars, ivars, written, crashed, workers, hasher, calc, enam>>

\* the meteo ingestor appended one more bronze file (between parse runs)
AddMeteoFile(payload) ==
    /\ meteo.pc = "idle"
    /\ meteo' = [meteo EXCEPT !.files = Append(@,
                    [file_id |-> Len(meteo.files) + 1, raw_payload |-> payload,
                     parse_status |-> NoStatus]),
                  !.ran = <<>>]
    /\ UNCHANGED MeteoOthers

\* main up to its loop.  select_ok: the SELECT of lines 175-181 did not
\* raise.  It names parse_status, a column the CREATE TABLE of
\* ingest_bronze_meteo.py does not declare, so whether it raises depends on
\* the table the database holds; main then logs and returns.
MeteoStart(select_ok) ==
    /\ meteo.pc = "idle"
    /\ meteo.files # <<>>
    /\ meteo' =
         IF select_ok
         THEN [meteo EXCEPT
                 !.run = @ + 1, !.pc = "file", !.bronze_files = meteo.files,
                 !.fidx = 1, !.manifest = NewMeteoManifest,
                 !.existing_checksums = load_existing_row_checksums(meteo.rows),
                 !.ran = Append(@, meteo.files)]
         ELSE [meteo EXCEPT !.run = @ + 1]
    /\ UNCHANGED MeteoOthers

\* lines 191-206: the payload of the next file is parsed; a file without
\* records is listed as skipped and marked PARSED_WITH_WARNINGS
MeteoBeginFile ==
    /\ meteo.pc = "file"
    /\ meteo.fidx <= Len(meteo.bronze_files)
    /\ LET bf == meteo.bronze_files[meteo.fidx]
           records == parse_payload_text(bf.raw_payload)
       IN meteo' =
            IF records = <<>>
            THEN [meteo EXCEPT
                    !.manifest.files_skipped =
                        Append(@, [file |-> bf.file_id, reason |-> "no_records"]),
                    !.files = update_parse_status(@, bf.file_id,
                                                  "PARSED_WITH_WARNINGS"),
                    !.fidx = @ + 1]
            ELSE [meteo EXCEPT
                    !.pc = "records", !.records = records, !.ridx = 1,
                    !.inserted = 0, !.skipped = 0, !.warnings = <<>>]
    /\ UNCHANGED MeteoOthers

\* lines 208-280: one iteration of the loop over the records.  rec.get of
\* a record that is no object raises AttributeError, which the except of
\* line 297 catches: the file is left and listed in errors.
MeteoRecord ==
    /\ meteo.pc = "records"
    /\ meteo.ridx <= Len(meteo.records)
    /\ LET bf == meteo.bronze_files[meteo.fidx]
           rec == meteo.records[meteo.ridx]
           row_checksum == compute_row_checksum(bf.file_id, date_str(rec), rec)
           row == [row_id |-> row_checksum, file_id |-> bf.file_id,
                   raw_vars |-> rec, row_checksum |-> row_checksum,
                   ingest_job_id |-> meteo.run,
                   original_record_index |-> meteo.ridx - 1]
       IN meteo' =
            IF rec = NotAnObject
            THEN [meteo EXCEPT
                    !.manifest.errors =
                        Append(@, [file_row |-> bf.file_id,
                                   error |-> "AttributeError"]),
                    !.pc = "file", !.fidx = @ + 1]
            ELSE IF row_checksum \in meteo.existing_checksums
            THEN [meteo EXCEPT !.skipped = @ + 1, !.ridx = @ + 1]
            ELSE IF meteo_insert_raises(meteo.rows, row)
            THEN [meteo EXCEPT
                    !.warnings = Append(@, [idx |-> meteo.ridx - 1]),
                    !.ridx = @ + 1]
            ELSE [meteo EXCEPT
                    !.rows = @ \cup {row}, !.inserted = @ + 1,
                    !.existing_checksums = @ \cup {row_checksum},
                    !.ridx = @ + 1]
    /\ UNCHANGED MeteoOthers

\* lines 282-295: after the last record the file's parse_status is set
MeteoEndFile ==
    /\ meteo.pc = "records"
    /\ meteo.ridx > Len(meteo.records)
    /\ LET bf == meteo.bronze_files[meteo.fidx]
           new_status == IF meteo.warnings # <<>> THEN "PARSED_WITH_WARNINGS"
                         ELSE "PARSED"
       IN meteo' =
            [meteo EXCEPT
               !.files = update_parse_status(@, bf.file_id, new_status),
               !.manifest.files_processed =
                   Append(@, [file_id |-> bf.file_id, inserted |-> meteo.inserted,
                              skipped |-> meteo.skipped,
                              warnings |-> meteo.warnings]),
               !.pc = "file", !.fidx = @ + 1]
    /\ UNCHANGED MeteoOthers

\* lines 301-308: the manifest is written
MeteoFinish ==
    /\ meteo.pc = "file"
    /\ meteo.fidx > Len(meteo.bronze_files)
    /\ meteo' = [meteo EXCEPT !.pc = "idle", !.written = @ + 1]
    /\ UNCHANGED MeteoOthers

InitMeteo ==
    /\ InitParser
    /\ IngestIdle
    /\ ingestor = "meteo"
    /\ dir = <<>>
    /\ written = 0
    /\ crashed = {}
    /\ workers = <<>>
    /\ hasher = <<>>
    /\ calc = <<>>
    /\ enam = <<>>
    /\ meteo = MeteoIdle

NextMeteo ==
    \/ \E payload \in MeteoTexts :
          /\ meteo.run < MaxMeteoRuns
          /\ Len(meteo.files) < MaxMeteoFiles
          /\ AddMeteoFile(payload)
    \/ \E select_ok \in BOOLEAN :
          meteo.run < MaxMeteoRuns /\ MeteoStart(select_ok)
    \/ MeteoBeginFile
    \/ MeteoRecord
    \/ MeteoEndFile
    \/ MeteoFinish

SpecMeteo == InitMeteo /\ [][NextMeteo]_vars

----------------------------------------------------------------------------
(* The eNAM row parser: main of parse_bronze_enam.py.  enam.files is       *)
(* enam_bronze_files, enam.rows is enam_bronze_rows; the other fields are  *)
(* the locals of main and what it has logged.                              *)

MaxEnamFiles == 2   \* bronze files of the eNAM source
MaxEnamRuns == 2    \* runs of the eNAM parser

TypeError == [type |-> "TypeError", n |-> 0, s |-> <<>>]

\* what json.loads gives for a line of a payload: an object (a market
\* arrival record), a list, or JSONDecodeError ("bad")
EnamObject(created_at, modal_price) ==
    [kind |-> "object", apmc |-> "Alpha", commodity |-> "Wheat",
     created_at |-> created_at, modal_price |-> modal_price]

EnamList == [EnamObject("", Absent) EXCEPT !.kind = "list"]
EnamBad == [EnamObject("", Absent) EXCEPT !.kind = "bad"]

E2000 == EnamObject("2024-01-01", py_int(2000))
E2100 == EnamObject("2024-01-01", py_int(2100))
ENull == EnamObject("2024-01-01", None)
EDate == EnamObject("01 Jan 2024", py_int(2000))

\* the payloads of the eNAM bronze files, line by line
EnamPayloads ==
    { <<E2000>>, <<E2100>>, <<E2000, E2100>>, <<E2000, E2000>>, <<ENull>>,
      <<ENull, E2000>>, <<EDate>>, <<EnamList>>, <<E2000, EnamBad>> }

\* parse_date of parse_bronze_enam.py: '%Y-%m-%d' only, "" when it fails
enam_parse_date(s) == IF s = "2024-01-01" THEN "2024-01-01" ELSE ""

\* compute_row_id of parse_bronze_enam.py
enam_compute_row_id(file_id, apmc, commodity, reported_date) ==
    <<file_id, apmc, commodity, reported_date>>

\* compute_record_hash of parse_bronze_enam.py: the price fields of the
\* record as they stand
enam_compute_record_hash(record) == <<record.modal_price>>

\* float(record.get(key, 0)): 0 for a key the record lacks; float(None)
\* raises TypeError, float of a str that is no number ValueError
enam_float(value) ==
    IF value = Absent THEN py_float(0, <<>>)
    ELSE IF value.type \in {"int", "bool", "float"} THEN float_of_number(value)
    ELSE IF value.type = "str" THEN float_of_str(str_strip(value.s))
    ELSE TypeError

Exceptions == {ValueError, OverflowError, TypeError}

\* the row of lines 194-202
enam_row(file_id, record, date_iso, i) ==
    [row_id |-> enam_compute_row_id(file_id, record.apmc, record.commodity, date_iso),
     file_id |-> file_id, apmc |-> record.apmc, commodity |-> record.commodity,
     modal_price |-> enam_float(record.modal_price),
     reported_date |-> date_iso,
     record_hash |-> enam_compute_record_hash(record),
     is_latest |-> TRUE, version |-> 1, source_row_number |-> i]

\* the natural key of the unique index (line 120)
EnamKey(r) == <<r.apmc, r.commodity, r.reported_date>>

\* con.execute(insert_sql, values) raises on the primary key (row_id), on
\* the unique index on (apmc, commodity, reported_date, version), and on a
\* reported_date that is no date
enam_insert_raises(table, row) ==
    \/ \E r \in table : r.row_id = row.row_id
    \/ \E r \in table : EnamKey(r) = EnamKey(row) /\ r.version = row.version
    \/ row.reported_date = ""

EnamIdle ==
    [files |-> <<>>, rows |-> {}, pc |-> "idle", run |-> 0, bronze_files |-> <<>>,
     fidx |-> 0, ridx |-> 0, log |-> <<>>]

EnamOthers == <<pvars, ivars, written, crashed, workers, hasher, calc, meteo>>

\* a bronze file of the eNAM source appears (between parse runs)
AddEnamFile(payload) ==
    /\ enam.pc \in {"idle", "aborted"}
    /\ enam' = [enam EXCEPT !.files = Append(@,
                   [file_id |-> Len(enam.files) + 1, raw_payload |-> payload]),
                 !.pc = "idle"]
    /\ UNCHANGED EnamOthers

\* lines 168-171: main up to its loop (no manifest is kept)
EnamStart ==
    /\ enam.pc \in {"idle", "aborted"}
    /\ enam.files # <<>>
    /\ enam' = [enam EXCEPT !.run = @ + 1, !.pc = "file",
                             !.bronze_files = enam.files, !.fidx = 1,
                             !.log = <<>>]
    /\ UNCHANGED EnamOthers

\* lines 172-177: every line of the payload is parsed; one line that is no
\* JSON and the file is logged and left
EnamBeginFile ==
    /\ enam.pc = "file"
    /\ enam.fidx <= Len(enam.bronze_files)
    /\ LET bf == enam.bronze_files[enam.fidx] IN
       enam' =
         IF \E i \in DOMAIN bf.raw_payload : bf.raw_payload[i] = EnamBad
         THEN [enam EXCEPT
                 !.log = Append(@, [file_id |-> bf.file_id, line |-> 0,
                                    error |-> "Failed to parse file"]),
                 !.fidx = @ + 1]
         ELSE [enam EXCEPT !.pc = "records", !.ridx = 1]
    /\ UNCHANGED EnamOthers

\* lines 178-206: one iteration of the loop over the records.  Lines
\* 179-202 stand outside any try: record.get of a list raises
\* AttributeError and float() of a value that is no number raises, and
\* main ends there.  Only the INSERT is guarded.
EnamRecord ==
    /\ enam.pc = "records"
    /\ enam.ridx <= Len(enam.bronze_files[enam.fidx].raw_payload)
    /\ LET bf == enam.bronze_files[enam.fidx]
           record == bf.raw_payload[enam.ridx]
           date_iso == enam_parse_date(record.created_at)
           row == enam_row(bf.file_id, record, date_iso, enam.ridx)
       IN enam' =
            IF record.kind # "object" \/ row.modal_price \in Exceptions
            THEN [enam EXCEPT !.pc = "aborted"]
            ELSE IF enam_insert_raises(enam.rows, row)
            THEN [enam EXCEPT
                    !.log = Append(@, [file_id |-> bf.file_id, line |-> enam.ridx,
                                       error |-> "Failed to insert row"]),
                    !.ridx = @ + 1]
            ELSE [enam EXCEPT !.rows = @ \cup {row}, !.ridx = @ + 1]
    /\ UNCHANGED EnamOthers

\* the loop over the records ends
EnamEndFile ==
    /\ enam.pc = "records"
    /\ enam.ridx > Len(enam.bronze_files[enam.fidx].raw_payload)
    /\ enam' = [enam EXCEPT !.pc = "file", !.fidx = @ + 1]
    /\ UNCHANGED EnamOthers

\* line 207: con.close()
EnamFinish ==
    /\ enam.pc = "file"
    /\ enam.fidx > Len(enam.bronze_files)
    /\ enam' = [enam EXCEPT !.pc = "idle"]
    /\ UNCHANGED EnamOthers

InitEnam ==
    /\ InitParser
    /\ IngestIdle
    /\ ingestor = "enam"
    /\ dir = <<>>
    /\ written = 0
    /\ crashed = {}
    /\ workers = <<>>
    /\ hasher = <<>>
    /\ calc = <<>>
    /\ meteo = <<>>
    /\ enam = EnamIdle

NextEnam ==
    \/ \E payload \in EnamPayloads :
          /\ enam.run < MaxEnamRuns
          /\ Len(enam.files) < MaxEnamFiles
          /\ AddEnamFile(payload)
    \/ enam.run < MaxEnamRuns /\ EnamStart
    \/ EnamBeginFile
    \/ EnamRecord
    \/ EnamEndFile
    \/ EnamFinish

SpecEnam == InitEnam /\ [][NextEnam]_vars

----------------------------------------------------------------------------
(* Properties of the row parser *)

KeyRows(r) == { o \in rows : NaturalKey(o) = NaturalKey(r) }

\* the current run has so far inserted nothing, updated nothing and
\* recorded no error
RunWroteNothing ==
    /\ manifest.errors = <<>>
    /\ cur.rows_inserted = 0
    /\ cur.rows_updated = 0
    /\ \A i \in DOMAIN manifest.processed_files :
          /\ manifest.processed_files[i].rows_inserted = 0
          /\ manifest.processed_files[i].rows_updated = 0

\* C1: parser idempotency.  A run over the same bronze files as the run
\* before it inserts no row, updates no row and records no error.
C1_ParserIdempotent ==
    (run >= 2 /\ queue = prevQueue) => RunWroteNothing

\* C2: after process_file_records calls by a single writer, every natural
\* key with a stored row has exactly one is_latest row, and it is the row of
\* the maximum version.
C2_ExactlyOneLatest ==
    pc # "records" =>
        \A r \in rows :
            /\ Cardinality({ o \in KeyRows(r) : o.is_latest }) = 1
            /\ Latest(KeyRows(r)).is_latest

ChainPrice(i) == queue[i].records[1].modal_price

\* the first four files of the run carry H1, H2 # H1, H2, H3 # H2 and have
\* all been processed
ChainDone ==
    /\ run = 1
    /\ Len(queue) >= 4
    /\ pc = "file"
    /\ fidx = 5
    /\ ChainPrice(1) # ChainPrice(2)
    /\ ChainPrice(2) = ChainPrice(3)
    /\ ChainPrice(4) # ChainPrice(3)

AtRecord == pc = "records" /\ ridx <= Len(queue[fidx].records)
CurRecord == queue[fidx].records[ridx]
CurFields == Fields(queue[fidx].file_id, CurRecord)

\* the record about to be processed passes the validation, and the stored
\* row of the maximum version of its natural key carries its record_hash
SameAsLatest ==
    /\ AtRecord
    /\ ~Dropped(CurRecord)
    /\ \E r \in rows :
          /\ NaturalKey(r) =
                <<strip(CurRecord.market_name), strip(CurRecord.commodity_name),
                  strip(CurRecord.variety), strip(CurRecord.grade),
                  parse_date(CurRecord.reported_date)>>
          /\ \A o \in KeyRows(r) : o.version <= r.version
          /\ r.record_hash =
                compute_record_hash(0, 0, 0,
                    parse_numeric(py_int(CurRecord.modal_price)).n)

StoreAfter(table, file_id, record, idx, run_id, ts) ==
    LET market_name == strip(record.market_name)
        commodity_name == strip(record.commodity_name)
        variety == strip(record.variety)
        grade == strip(record.grade)
        date_iso == parse_date(record.reported_date)
        modal_price == parse_numeric(py_int(record.modal_price)).n
        row_id == compute_row_id(file_id, market_name, commodity_name,
                                 variety, grade, date_iso)
        record_hash == compute_record_hash(0, 0, 0, modal_price)
        existing == { r \in table : NaturalKey(r) =
                        <<market_name, commodity_name, variety, grade, date_iso>> }
        latest == Latest(existing)
        version == IF existing = {} THEN 1 ELSE next_version(latest)
        updated == IF existing = {} THEN table
                   ELSE (table \ {latest}) \cup
                        {update_superseded(latest, row_id, ts)}
        row == new_row(row_id, file_id, market_name, commodity_name, variety,
                       grade, date_iso, modal_price, record_hash, version,
                       run_id, ts, idx)
    IN  IF Dropped(record) THEN table
        ELSE IF existing # {} /\ latest.record_hash = record_hash THEN table
        ELSE IF insert_raises(updated, row) THEN updated
        ELSE updated \cup {row}

RECURSIVE RunRecords(_, _, _)
RunRecords(table, f, idx) ==
    IF idx > Len(f.records) THEN table
    ELSE RunRecords(StoreAfter(table, f.file_id, f.records[idx], idx, 1, 1),
                    f, idx + 1)

\* the store an uninterrupted run over the bronze files fs makes of `table`
RECURSIVE RunFiles(_, _)
RunFiles(table, fs) ==
    IF fs = <<>> THEN table
    ELSE RunFiles(IF Head(fs).payload_error THEN table
                  ELSE RunRecords(table, Head(fs), 1),
                  Tail(fs))

\* what the claim compares of a row: its natural key, data, version,
\* is_latest and superseded_by
Content(table) ==
    { <<NaturalKey(r), r.record_hash, r.version, r.is_latest, r.superseded_by>> :
        r \in table }

\* every natural key of `table` has exactly one is_latest row, and every
\* superseded row points to a stored row
Consistent(table) ==
    \A r \in table :
        /\ Cardinality({ o \in table :
              NaturalKey(o) = NaturalKey(r) /\ o.is_latest }) = 1
        /\ ~r.is_latest => \E o \in table : o.row_id = r.superseded_by

\* the first run was interrupted and the second run, over the same bronze
\* files, has finished
RerunDone ==
    /\ pc = "idle"
    /\ crashed = {1}
    /\ run = 2
    /\ queue = prevQueue

\* C12: crash resumability.  After a parse run was interrupted between two
\* store writes the store is consistent, and once the run has been repeated
\* to completion the rows have the content (version, is_latest,
\* superseded_by per natural key) an uninterrupted run produces.
C12_CrashResumable ==
    /\ (pc = "idle" /\ crashed = {run} /\ run > 0) => Consistent(rows)
    /\ RerunDone => Content(rows) = Content(RunFiles({}, queue))

\* two executions on the same natural key both found no stored version and
\* both went on to insert version 1
BothFoundNoVersion ==
    \E w \in DOMAIN workers.procs : \E u \in DOMAIN workers.procs :
        /\ w # u
        /\ WorkerKey(workers.procs[w]) = WorkerKey(workers.procs[u])
        /\ workers.procs[w].wpc \in {"insert", "done"}
        /\ workers.procs[u].wpc \in {"insert", "done"}
        /\ workers.procs[w].existing = {}
        /\ workers.procs[u].existing = {}

StepIsStoreAfter ==
    [][(AtRecord /\ ridx' = ridx + 1) =>
          rows' = StoreAfter(rows, queue[fidx].file_id, CurRecord, ridx, run, now)]_vars

\* the record about to be processed lacks market_name or commodity_name, or
\* its reported_date is missing or unparseable
LacksKeyOrDate ==
    /\ AtRecord
    /\ \/ CurRecord.reported_date = ""
       \/ parse_date(CurRecord.reported_date) = "ERR"
       \/ strip(CurRecord.market_name) = ""
       \/ strip(CurRecord.commodity_name) = ""

\* C16: record validation.  A record without a required natural-key field
\* or with a missing or unparseable reported_date is dropped without a store
\* write, is counted in the per-file counters or in the manifest, and the
\* loop goes on with the next record.
C16_DroppedRecordCounted ==
    [][(LacksKeyOrDate /\ ridx' = ridx + 1) =>
          /\ rows' = rows
          /\ cur' # cur \/ manifest' # manifest
          /\ pc' = "records"]_vars

\* the natural key of a stored row with its free-text components normalized
NormalizedKey(r) ==
    <<normalize_place_name(r.market_name), normalize_place_name(r.commodity_name),
      normalize_place_name(r.variety), normalize_place_name(r.grade),
      r.reported_date>>

\* C17: the natural key used for versioning is normalized.  Records whose
\* free-text key components differ only in letter case, whitespace or
\* punctuation belong to one identity: no two stored rows with the same
\* normalized key have the same version.
C17_NormalizedKeyVersions ==
    \A r1 \in rows : \A r2 \in rows :
        (NormalizedKey(r1) = NormalizedKey(r2) /\ r1.version = r2.version)
            => r1 = r2

\* what the claim expects of a payload text: the whole text parsed as JSON
\* (an array as it is, a single object as a one-element list) and, when that
\* fails, the lines that parse
AcceptedRecords(text) ==
    LET whole == json_loads(text) IN
    IF whole.ok THEN whole.items
    ELSE LET RECURSIVE WellFormed(_)
             WellFormed(t) ==
                 IF t = <<>> THEN <<>>
                 ELSE IF json_loads_line(Head(t)).ok
                 THEN <<AsRecord(json_loads_line(Head(t)))>> \o WellFormed(Tail(t))
                 ELSE WellFormed(Tail(t))
         IN WellFormed(text)

\* the run over the single bronze file is finished
PayloadRunDone == pc = "idle" /\ run = 1 /\ Len(queue) = 1

\* C18: payload parsing accepts a JSON array, a single JSON object or
\* newline-delimited objects for any stored payload text, trying the whole
\* text first and the lines after; a payload that yields no record is listed
\* as 'no_records' and not as an error.
C18_PayloadAccepted ==
    /\ \A i \in DOMAIN files :
          /\ files[i].records = AcceptedRecords(files[i].raw_payload)
          /\ parse_payload_text(files[i].raw_payload)
                = AcceptedRecords(files[i].raw_payload)
    /\ (PayloadRunDone /\ AcceptedRecords(queue[1].raw_payload) = <<>>) =>
          /\ manifest.skipped_files = <<[file_id |-> 1, reason |-> "no_records"]>>
          /\ manifest.errors = <<>>

\* number of non-blank lines of the text that are not JSON
RECURSIVE MalformedLines(_)
MalformedLines(text) ==
    IF text = <<>> THEN 0
    ELSE (IF Head(text) # "" /\ ~json_loads_line(Head(text)).ok THEN 1 ELSE 0)
         + MalformedLines(Tail(text))

\* the text has a line that is a JSON object
HasObjectLine(text) ==
    \E i \in DOMAIN text :
        json_loads_line(text[i]).ok /\ ~json_loads_line(text[i]).is_list

\* C19: a malformed line of a JSON-Lines payload does not fail the file.
\* After the run over a JSON-Lines payload with well-formed object lines,
\* every such line has its row, and the manifest holds one entry per
\* malformed line.
C19_MalformedLineWarned ==
    (/\ PayloadRunDone
     /\ queue[1].data_format = "jsonl"
     /\ HasObjectLine(queue[1].raw_payload)) =>
        /\ \A i \in DOMAIN queue[1].raw_payload :
              LET v == json_loads_line(queue[1].raw_payload[i]) IN
              (v.ok /\ ~v.is_list) =>
                  \E r \in rows :
                      /\ r.market_name = v.items[1].market_name
                      /\ r.modal_price = v.items[1].modal_price
        /\ Len(manifest.errors) + Len(manifest.skipped_files)
              = MalformedLines(queue[1].raw_payload)

\* C8: each version gets a fresh row_id.  Whenever a record is a detected
\* change (a new natural key, or data that differs from the latest version),
\* the row_id computed for its new version row differs from every row_id
\* already stored.
C8_FreshRowId ==
    (/\ AtRecord
     /\ ~Dropped(CurRecord)
     /\ ~Unchanged(CurFields.existing, CurFields.record_hash))
        => CurFields.row_id \notin RowIds

\* C9: superseded_by points forward.  Each row with is_latest = false has
\* superseded_by equal to the row_id of a stored row of the same natural key
\* whose version is exactly one higher.
C9_SupersededByForward ==
    \A r \in rows :
        ~r.is_latest =>
            \E o \in KeyRows(r) :
                /\ o.row_id = r.superseded_by
                /\ o.version = r.version + 1

\* the columns the supersede UPDATE does not write
Frozen(r) ==
    [r EXCEPT !.is_latest = FALSE, !.superseded_by = NoRow,
              !.superseded_at = NoTime, !.updated_at = NoTime]

\* C10: a stored row is written at most once, by the update that supersedes
\* it: in every step each stored row either stays as it is, or is a row not
\* yet superseded that only gets is_latest = false, superseded_by and
\* superseded_at (with updated_at); no row is deleted.
C10_WrittenOnce ==
    [][\A r \in rows :
          \/ r \in rows'
          \/ /\ r.is_latest
             /\ r.superseded_by = NoRow
             /\ \E o \in rows' :
                   /\ o.row_id = r.row_id
                   /\ ~o.is_latest
                   /\ o.superseded_by # NoRow
                   /\ Frozen(o) = Frozen(r)]_vars


----------------------------------------------------------------------------
(* Properties of the file ingestors *)

StoredChecksums == { f.checksum : f \in store }

\* the last two runs that scanned found the same directory, and the later
\* one is finished
RescannedUnchanged ==
    /\ ipc = "idle"
    /\ scans >= 2
    /\ scanDir = prevScan

AtScannedFile ==
    /\ ipc = "scan"
    /\ pos <= Len(scanDir)
    /\ scanDir[pos].ext \in {".json", ".jsonl"}
    /\ can_read(scanDir, pos)

\* C15: a run always produces a manifest.  Every ingestion run that has
\* started (it holds the store connection) and has terminated has written
\* one manifest document.
C15_RunWritesManifest ==
    ipc = "idle" => written = irun

\* processing the file the scan is at raises: the file cannot be read, or
\* its checksum is not in the in-memory set and the INSERT does not bind or
\* breaks the PRIMARY KEY / UNIQUE constraint
ScanRaises ==
    /\ ipc = "scan"
    /\ pos <= Len(scanDir)
    /\ scanDir[pos].ext \in {".json", ".jsonl"}
    /\ LET target == IF scanDir[pos].link = 0 THEN pos ELSE scanDir[pos].link
           checksum == <<target, scanDir[target].content>>
       IN \/ ~scanDir[target].readable
          \/ /\ checksum \notin existing_checksums
             /\ \/ InsertPlaceholders[ingestor] # InsertParameters[ingestor]
                \/ checksum \in StoredChecksums

BothHashed == hasher[1].hpc = "done" /\ hasher[2].hpc = "done"

C7_OneInsertPerNewChecksum ==
    [][(AtScannedFile /\ pos' = pos + 1) =>
          LET checksum == file_checksum(scanDir, pos) IN
          /\ checksum \in StoredChecksums => store' = store
          /\ checksum \notin StoredChecksums =>
                \E f \in store' :
                    /\ f.checksum = checksum
                    /\ f \notin store
                    /\ store' = store \cup {f}
          /\ \A f \in store' : \A g \in store' :
                f.checksum = g.checksum => f = g]_vars

----------------------------------------------------------------------------
(* Properties of the helper functions *)

\* the strings the claim names as missing: the spellings in any letter case
NamedMissing == { s \in NumericStrings : lower(s) \in MissingWords }

Returned == calc.result # Pending

Raised == calc.result.type \in {"ValueError", "OverflowError"}

\* C21: parse_numeric is total and never raises: '', the spellings of a
\* missing value in any letter case and None give None, '1,234.5' gives
\* 1234.5, and the result is always None or a float.
C21_NumericTotal ==
    Returned =>
        /\ ~Raised
        /\ calc.result = None \/ calc.result.type = "float"
        /\ (calc.value = None \/ calc.value = py_str(<<>>)) => calc.result = None
        /\ (calc.value.type = "str" /\ calc.value.s \in NamedMissing)
              => calc.result = None
        /\ calc.value = py_str(<<"1", ",", "2", "3", "4", ".", "5">>)
              => calc.result = py_float(1234, <<"5">>)
        /\ (calc.value.type = "str" /\
            float_of_str(str_strip(replace(calc.value.s, ","))) = ValueError)
              => calc.result = None

\* the value the JSON object gives for a key, whatever the order of its keys
ValueOf(record, key) ==
    LET vs == { record[i][2] : i \in { j \in DOMAIN record : record[j][1] = key } }
    IN  IF vs = {} THEN None ELSE CHOOSE v \in vs : TRUE

\* the coerced measurement values of a record
Coerced(record) ==
    [k \in { PRICE_FIELDS[i] : i \in DOMAIN PRICE_FIELDS } |->
        parse_numeric(ValueOf(record, k))]

RequiredOf(parser) ==
    IF parser = "agmarknet" THEN Range(REQUIRED_FIELDS)
    ELSE Range(ENAM_REQUIRED_FIELDS)

PriceOf(parser) ==
    IF parser = "agmarknet" THEN Range(PRICE_FIELDS) ELSE Range(ENAM_PRICE_FIELDS)

\* the required fields that are absent, None or empty, and the measurement
\* fields that are present with value None
BadRequired ==
    { f \in RequiredOf(calc.parser) :
        calc.record[f] \in {Absent, None, py_str(<<>>)} }

NullPrices == { f \in PriceOf(calc.parser) : calc.record[f] = None }

\* C23: check_data_quality returns is_complete false exactly when a
\* required field is absent, None or empty, has_nulls true exactly when a
\* measurement field is present with value None, and null_field_count the
\* number of such required fields plus the number of such measurement
\* fields.
C23_DataQuality ==
    calc.returned =>
        /\ calc.result.is_complete = (BadRequired = {})
        /\ calc.result.has_nulls = (NullPrices # {})
        /\ calc.result.null_count =
              Cardinality(BadRequired) + Cardinality(NullPrices)

\* a record with an empty and an absent required field and a null price,
\* its other prices absent or not None: incomplete, with nulls, count 3
C23_Witness ==
    /\ calc.returned
    /\ calc.parser = "agmarknet"
    /\ calc.record["market_name"] = py_str(<<>>)
    /\ calc.record["state_name"] = Absent
    /\ calc.record["modal_price"] = None
    /\ calc.record["arrivals"] = py_str(<<>>)
    /\ calc.record["min_price"] = Absent
    /\ calc.result = [has_nulls |-> TRUE, is_complete |-> FALSE, null_count |-> 3]

----------------------------------------------------------------------------
(* Properties of the parse manifest *)

\* the sum of one counter over the processed_files entries
RECURSIVE SumOver(_, _)
SumOver(entries, counter) ==
    IF entries = <<>> THEN 0
    ELSE Head(entries)[counter] + SumOver(Tail(entries), counter)

\* a parse run has ended and written its manifest
RunEnded == run > 0 /\ pc = "idle"

\* C24: at the end of a parse run the aggregate stats agree with the event
\* lists: the three row totals are the sums over processed_files,
\* files_processed is the number of processed_files entries and
\* files_skipped the number of skipped_files entries.
C24_StatsAgreeWithLists ==
    RunEnded =>
        /\ manifest.stats.total_rows_inserted =
              SumOver(manifest.processed_files, "rows_inserted")
        /\ manifest.stats.total_rows_skipped =
              SumOver(manifest.processed_files, "rows_skipped")
        /\ manifest.stats.total_rows_updated =
              SumOver(manifest.processed_files, "rows_updated")
        /\ manifest.stats.files_processed = Len(manifest.processed_files)
        /\ manifest.stats.files_skipped = Len(manifest.skipped_files)

----------------------------------------------------------------------------
(* Properties of the BronzeFile tables *)

\* a BronzeFile record without its parse_status
Ingested(f) == [file_id |-> f.file_id, raw_payload |-> f.raw_payload]

\* a step keeps the records of a table kept as a sequence, in their place
KeepsRecords(old, new) ==
    /\ Len(new) >= Len(old)
    /\ \A i \in DOMAIN old : new[i] = old[i]

\* the files whose parse_status a step changes
StatusChanged ==
    { i \in DOMAIN meteo.files :
        meteo.files'[i].parse_status # meteo.files[i].parse_status }

----------------------------------------------------------------------------
(* Properties of the eNAM row parser *)

\* the step is an iteration of the record loop on an object whose prices
\* are numbers and whose date parses
EnamRecordStep ==
    /\ enam.pc = "records"
    /\ enam.ridx <= Len(enam.bronze_files[enam.fidx].raw_payload)

EnamCurrent == enam.bronze_files[enam.fidx].raw_payload[enam.ridx]

EnamCurrentRow ==
    enam_row(enam.bronze_files[enam.fidx].file_id, EnamCurrent,
             enam_parse_date(EnamCurrent.created_at), enam.ridx)

\* the stored versions of the observation of the current record
EnamStored == { r \in enam.rows : EnamKey(r) = EnamKey(EnamCurrentRow) }

EnamLatest == CHOOSE r \in EnamStored : \A o \in EnamStored : o.version <= r.version

\* the observation of the current record is stored already
EnamReload ==
    /\ EnamRecordStep
    /\ EnamCurrent.kind = "object"
    /\ EnamCurrentRow.modal_price \notin Exceptions
    /\ EnamCurrentRow.reported_date # ""
    /\ EnamStored # {}

\* C26: the eNAM parser versions reloads: an observation stored already
\* that arrives with changed measurement values gets a row of the next
\* version, is_latest true on it and false on the row before; an unchanged
\* one adds no row and logs no error.
C26_EnamVersionsReloads ==
    [][EnamReload =>
         IF enam_compute_record_hash(EnamCurrent) = EnamLatest.record_hash
         THEN enam.rows' = enam.rows /\ enam.log' = enam.log
         ELSE \E new \in enam.rows' \ enam.rows :
                 /\ EnamKey(new) = EnamKey(EnamCurrentRow)
                 /\ new.version = EnamLatest.version + 1
                 /\ new.is_latest
                 /\ \A r \in enam.rows' :
                       (EnamKey(r) = EnamKey(new) /\ r # new) => ~r.is_latest]_vars

----------------------------------------------------------------------------
(* Properties of the meteo row parser *)

\* a meteo parse run has ended and written its manifest
MeteoRunEnded == meteo.pc = "idle" /\ meteo.written > 0

\* the run went through the same bronze files as the run before it
MeteoSecondRun ==
    /\ Len(meteo.ran) = 2
    /\ Len(meteo.ran[1]) = Len(meteo.ran[2])
    /\ \A i \in DOMAIN meteo.ran[1] :
          Ingested(meteo.ran[1][i]) = Ingested(meteo.ran[2][i])

\* an INSERT of a row of the file failed in the run
InsertFailed(file_id) ==
    \E i \in DOMAIN meteo.manifest.files_processed :
        /\ meteo.manifest.files_processed[i].file_id = file_id
        /\ meteo.manifest.files_processed[i].warnings # <<>>

\* parse_status of the file as stored
StatusOf(file_id) ==
    meteo.files[CHOOSE i \in DOMAIN meteo.files :
                    meteo.files[i].file_id = file_id].parse_status

\* C27: the meteo parser is idempotent through row checksums: no two
\* stored rows share a row_checksum, a second run over unchanged bronze
\* files inserts zero rows, and at the end of a run a file's parse_status
\* is PARSED when no insert failed and PARSED_WITH_WARNINGS otherwise.
C27_MeteoIdempotent ==
    /\ \A r, o \in meteo.rows : r.row_checksum = o.row_checksum => r = o
    /\ MeteoRunEnded =>
          /\ MeteoSecondRun =>
                \A i \in DOMAIN meteo.manifest.files_processed :
                    meteo.manifest.files_processed[i].inserted = 0
          /\ \A i \in DOMAIN meteo.bronze_files :
                StatusOf(meteo.bronze_files[i].file_id) =
                    IF InsertFailed(meteo.bronze_files[i].file_id)
                    THEN "PARSED_WITH_WARNINGS" ELSE "PARSED"

----------------------------------------------------------------------------
(* Properties of the handling of errors in the row parsers *)

\* the step is an iteration of process_file_records that ends in the
\* exception handler of lines 552-559
EndsInHandler ==
    /\ pc = "records"
    /\ Len(manifest'.errors) = Len(manifest.errors) + 1

\* C28: when processing a record ends in the exception handler the row
\* store is as it was before the record; no row has been marked superseded
\* without its successor being inserted.
C28_RecordErrorAtomic ==
    [][EndsInHandler => rows' = rows]_vars

\* C29: no single record aborts a parse run: whatever the record holds
\* and whatever the store raises, the step that handles it goes on to the
\* next record, and when it stores no row it logs the failure with the
\* file id and the index of the record.
C29_NoRecordAbortsRun ==
    [][EnamRecordStep =>
         /\ enam.pc' = "records"
         /\ enam.ridx' = enam.ridx + 1
         /\ enam.rows' = enam.rows =>
               /\ Len(enam.log') = Len(enam.log) + 1
               /\ enam.log'[Len(enam.log')].file_id =
                     enam.bronze_files[enam.fidx].file_id
               /\ enam.log'[Len(enam.log')].line = enam.ridx]_vars

----------------------------------------------------------------------------
(* Properties of the ingestors' set of seen checksums *)

----------------------------------------------------------------------------
(* Properties of the ingestors' counters and file errors *)

RECURSIVE SumRows(_)
SumRows(fs) == IF fs = <<>> THEN 0 ELSE Head(fs).rows + SumRows(Tail(fs))

\* C31: the counters of an ingestion run partition the scanned files.
\* Between two files of the scan, and after it, total_files_scanned is the
\* sum of files_ingested, files_skipped and files_errored, each of the three
\* is the length of its manifest list, and total_rows_ingested is the sum of
\* the row counts listed in ingested_files.
C31_CountersPartition ==
    LET s == imanifest.stats IN
    /\ s.total_files_scanned = s.files_ingested + s.files_skipped + s.files_errored
    /\ s.files_ingested = Len(imanifest.ingested_files)
    /\ s.files_skipped = Len(imanifest.skipped_files)
    /\ s.files_errored = Len(imanifest.errors)
    /\ s.total_rows_ingested = SumRows(imanifest.ingested_files)

C31_Witness ==
    /\ ipc = "scan"
    /\ pos > Len(scanDir)
    /\ Len(imanifest.skipped_files) = 1
    /\ Len(imanifest.ingested_files) = 1
    /\ imanifest.stats.total_rows_ingested = 2

----------------------------------------------------------------------------
(* Properties of the lookup of the existing versions *)

\* the rows a step inserts
Inserted == { r \in rows' : r.row_id \notin RowIds }

\* C32: a version-1 row is inserted for a natural key only when the store
\* holds no row of that key at that moment, and a row is inserted as
\* is_latest next to no other is_latest row of its key, also when the lookup
\* of the existing versions fails.
C32_FirstVersionOnlyForNewKey ==
    [][\A r \in Inserted :
          /\ r.version = 1 => \A o \in rows : NaturalKey(o) # NaturalKey(r)
          /\ \A o \in rows' \ {r} :
                NaturalKey(o) = NaturalKey(r) => ~(o.is_latest /\ r.is_latest)]_vars

----------------------------------------------------------------------------
(* Properties of the choice of the latest version *)

\* a row, and a store, without its clock readings
Untimed(r) ==
    [r EXCEPT !.ingest_ts = 0, !.created_at = 0, !.updated_at = 0,
              !.superseded_at = 0]

UntimedStore(table) == { Untimed(r) : r \in table }

\* the stored rows of the natural key of the record about to be processed,
\* and the one of the maximum version
CurKeyRows ==
    { r \in rows : NaturalKey(r) =
        <<CurFields.market_name, CurFields.commodity_name, CurFields.variety,
          CurFields.grade, CurFields.date_iso>> }

MaxVersionRow ==
    CHOOSE r \in CurKeyRows : \A o \in CurKeyRows : o.version <= r.version

\* C33: the latest version is the stored row of the maximum version of the
\* natural key.  A record whose key has stored rows is skipped exactly when
\* that row carries its record_hash; otherwise that row and no other is
\* marked superseded and the inserted row takes its version plus one,
\* whatever the is_latest flags.  No clock reading takes part: the step on
\* the store with every timestamp erased gives the same store, timestamps
\* erased.
C33_LatestIsMaxVersion ==
    [][(AtRecord /\ ~Dropped(CurRecord) /\ ridx' = ridx + 1) =>
          /\ CurKeyRows # {} =>
                IF MaxVersionRow.record_hash = CurFields.record_hash
                THEN rows' = rows
                ELSE /\ rows \ {MaxVersionRow} \subseteq rows'
                     /\ \E r \in rows' :
                           /\ r.row_id = MaxVersionRow.row_id
                           /\ ~r.is_latest
                           /\ r.superseded_by = CurFields.row_id
                     /\ \A r \in rows' :
                           r.row_id \notin RowIds =>
                               r.version = MaxVersionRow.version + 1
          /\ UntimedStore(rows') =
                UntimedStore(StoreAfter(UntimedStore(rows), queue[fidx].file_id,
                                        CurRecord, ridx, run, 0))]_vars

\* a changed record was processed on a key whose stored rows carry skewed
\* clock readings: the row of the higher version was created earlier
C33_Witness ==
    /\ pc = "records"
    /\ ridx = 2
    /\ \E r1, r2, r3 \in rows :
          /\ NaturalKey(r1) = NaturalKey(r2) /\ NaturalKey(r2) = NaturalKey(r3)
          /\ r1.version = 1 /\ r2.version = 2 /\ r3.version = 3
          /\ r2.created_at < r1.created_at
          /\ r2.superseded_by = r3.row_id
          /\ r3.is_latest

----------------------------------------------------------------------------
(* Properties of files that are oversized, unreadable or gone *)

\* entry i of the scanned directory has a recognized extension
Recognized(i) == scanDir[i].ext \in {".json", ".jsonl"}

\* entry i can be stat-ed and hashed, and is larger than the limit
Oversized(i) ==
    /\ Recognized(i)
    /\ scanDir[resolve(scanDir, i)].exists
    /\ scanDir[resolve(scanDir, i)].readable
    /\ scanDir[resolve(scanDir, i)].size > MAX_PAYLOAD_SIZE

\* entry i can be stat-ed and hashed and is within the limit, and the read
\* of its text raises
PayloadUnreadable(i) ==
    /\ Recognized(i)
    /\ scanDir[resolve(scanDir, i)].exists
    /\ scanDir[resolve(scanDir, i)].readable
    /\ scanDir[resolve(scanDir, i)].size <= MAX_PAYLOAD_SIZE
    /\ ~scanDir[resolve(scanDir, i)].utf8

\* the bronze files stored for entry i
StoredFor(i) ==
    { f \in store : f.checksum = <<resolve(scanDir, i), scanDir[resolve(scanDir, i)].content>> }

\* the files the current parse run has gone through
Handled == { queue[k] : k \in 1..(fidx - 1) }

\* C34: a file larger than MAX_PAYLOAD_SIZE, and a file whose payload read
\* raises, is stored by the scan as one bronze file whose raw_payload is the
\* sentinel and not the content; the row parser makes no row of such a
\* bronze file and lists it once in skipped_files with reason payload_error.
C34_SentinelStoredAndSkipped ==
    /\ \A i \in 1..(pos - 1) :
          /\ Oversized(i) =>
                /\ Cardinality(StoredFor(i)) = 1
                /\ \A f \in StoredFor(i) : f.raw_payload = PAYLOAD_TOO_LARGE
          /\ PayloadUnreadable(i) =>
                /\ Cardinality(StoredFor(i)) = 1
                /\ \A f \in StoredFor(i) : f.raw_payload = READ_ERROR
    /\ \A f \in Handled :
          f.raw_payload \in {PAYLOAD_TOO_LARGE, READ_ERROR} =>
              /\ \A r \in rows : r.file_id # f.file_id
              /\ Cardinality({ k \in DOMAIN manifest.skipped_files :
                    manifest.skipped_files[k] =
                        [file_id |-> f.file_id, reason |-> "payload_error"] }) = 1

C34_Witness ==
    /\ pc = "idle"
    /\ run = 1
    /\ \E f, g \in store :
          /\ f.raw_payload = PAYLOAD_TOO_LARGE
          /\ g.raw_payload = READ_ERROR
          /\ \E j, k \in DOMAIN manifest.skipped_files :
                /\ manifest.skipped_files[j] =
                      [file_id |-> f.file_id, reason |-> "payload_error"]
                /\ manifest.skipped_files[k] =
                      [file_id |-> g.file_id, reason |-> "payload_error"]
    /\ rows = {}

\* the scan is at entry `pos`
AtEntry == ipc = "scan" /\ pos <= Len(scanDir)

\* entry i was listed by os.walk and is gone when the scan reaches it
Gone(i) == Recognized(i) /\ ~scanDir[resolve(scanDir, i)].exists

\* entry i is there and may not be read
Denied(i) ==
    /\ Recognized(i)
    /\ scanDir[resolve(scanDir, i)].exists
    /\ ~scanDir[resolve(scanDir, i)].readable

\* the step lists entry `pos` in errors, counts it in files_errored, stores
\* nothing and goes on to the next entry
MarkedErrored ==
    /\ Len(imanifest'.errors) = Len(imanifest.errors) + 1
    /\ imanifest'.errors[Len(imanifest'.errors)].path = pos
    /\ imanifest'.stats.files_errored = imanifest.stats.files_errored + 1
    /\ imanifest'.stats.files_ingested = imanifest.stats.files_ingested
    /\ store' = store
    /\ ipc' = "scan"
    /\ pos' = pos + 1

----------------------------------------------------------------------------
(* Properties of the enumeration of the data directory *)

\* the paths of the files of the tree
TreePaths(tree) ==
    { <<f>> : f \in tree.root } \cup
    UNION { { <<d, f>> : f \in tree.sub[d] } : d \in DirNames }

\* the paths a scan has to visit
RecognizedPaths(tree) == { p \in TreePaths(tree) : recognized(p[Len(p)]) }

\* the lexicographic order of paths, component by component
RECURSIVE path_less(_, _)
path_less(p, q) ==
    IF p = <<>> THEN q # <<>>
    ELSE IF q = <<>> THEN FALSE
    ELSE IF Letter(Head(p)) = Letter(Head(q)) THEN path_less(Tail(p), Tail(q))
    ELSE name_less(Head(p), Head(q))

\* C36: a scan visits exactly the files of the tree whose name ends in .json
\* or .jsonl, each once, in the lexicographic order of their paths, the same
\* order on every run over the same tree; a file of another extension is
\* not counted in total_files_scanned.
C36_ScanOrderDeterministic ==
    /\ \A k \in DOMAIN calc.scans :
          LET v == calc.scans[k].visited IN
          /\ { v[i] : i \in DOMAIN v } = RecognizedPaths(calc.tree)
          /\ \A i, j \in DOMAIN v : i # j => v[i] # v[j]
          /\ calc.scans[k].total_files_scanned =
                Cardinality(RecognizedPaths(calc.tree))
          /\ \A i, j \in DOMAIN v : i < j => path_less(v[i], v[j])
    /\ \A k, l \in DOMAIN calc.scans :
          calc.scans[k].visited = calc.scans[l].visited

----------------------------------------------------------------------------
(* Properties of extract_year_month_from_path *)

YearToken == <<"2", "0", "2", "5">>
CombinedTokens ==
    { <<"2", "0", "2", "5", "-", "0", "4">>,
      <<"2", "0", "2", "5", "_", "A", "p", "r">> }
PlainTokens == { <<"x">> }

\* every part of the path is one of `tokens`
PartsIn(tokens) == \A i \in DOMAIN calc.path : calc.path[i] \in tokens

\* C37: extract_year_month_from_path never fails.  For every path it
\* returns a pair (year, month) whose month is in 1..12; a path without a
\* date token gives the year and month of the last-modified time, a 4-digit
\* token gives the year, and a combined 'YYYY-MM' or 'YYYY_Mon' token gives
\* the year and the month.
C37_YearMonthNeverFails ==
    calc.result # Pending =>
        /\ calc.result \notin Exceptions
        /\ calc.result.month.n \in 1..12
        /\ PartsIn(PlainTokens) =>
              calc.result = [year |-> py_int(calc.mtime.year),
                             month |-> py_int(calc.mtime.month)]
        /\ (PartsIn(PlainTokens \cup {YearToken}) /\ ~PartsIn(PlainTokens)) =>
              calc.result = [year |-> py_int(2025),
                             month |-> py_int(calc.mtime.month)]
        /\ (PartsIn(PlainTokens \cup CombinedTokens) /\ ~PartsIn(PlainTokens)) =>
              calc.result = [year |-> py_int(2025), month |-> py_int(4)]
====
